---------------------------- MODULE Spec2Model ----------------------------
(***************************************************************************)
(* Model of the qr-products content pipeline: the spreadsheet-driven       *)
(* Content Generator and Localizer, the Merger, the Post-QC Normalizer,    *)
(* the Premium Pass, the Page Renderer and the Edit Service, all acting on *)
(* one content store (one JSON document per SKU).                          *)
(*                                                                         *)
(* Representation of Python values:                                        *)
(*   - a prose string is a sequence of tokens; a token is a maximal run of *)
(*     word characters, a run of non-word characters, or a fixed piece of  *)
(*     boilerplate carried whole.  "" is << >>.  len() is the sum of the   *)
(*     tokens' character counts.                                           *)
(*   - a SKU ID, a file name and a URL are sequences of single characters. *)
(*   - a dict is a function whose DOMAIN is its key set.                   *)
(***************************************************************************)
EXTENDS Integers, Sequences, FiniteSets, TLC

VARIABLES
    sheet,      \* Products_MASTER.xlsx: the sequence of spreadsheet rows
    template,   \* template_product.json: the product template
    enriched,   \* products_enriched.json: enriched store keyed by SKU
    content,    \* content/: file stem -> product record
    products,   \* products/: <<sku, file name>> -> rendered page
    edits,      \* number of update requests the Edit Service has served
    requests,   \* update requests the Edit Service is serving: position and what each holds
    cache,      \* cache/: the Enricher's search and page cache files
    enrich,     \* the Enricher process: its position in the run and what it holds in memory
    last        \* what the last run / request did (counters, files written, response)

vars == <<sheet, template, enriched, content, products, edits, requests, cache, enrich, last>>

-----------------------------------------------------------------------------
(* Generic helpers for Python strings, lists and dicts *)

RECURSIVE Concat(_)
Concat(ss) == IF ss = << >> THEN << >> ELSE Head(ss) \o Concat(Tail(ss))

RECURSIVE CharLen(_)
\* len(s) of a prose string
CharLen(s) == IF s = << >> THEN 0 ELSE Len(Head(s)) + CharLen(Tail(s))

\* whitespace tokens / characters
WS == {" ", "\t"}

RECURSIVE LStrip(_)
LStrip(s) == IF s # << >> /\ Head(s) \in WS THEN LStrip(Tail(s)) ELSE s

RECURSIVE RStrip(_)
RStrip(s) ==
    IF s # << >> /\ s[Len(s)] \in WS THEN RStrip(SubSeq(s, 1, Len(s) - 1)) ELSE s

\* str.strip()
Strip(s) == RStrip(LStrip(s))

\* needle in haystack (contiguous sub-sequence)
Contains(hay, needle) ==
    \E i \in 0..(Len(hay) - Len(needle)) :
        SubSeq(hay, i + 1, i + Len(needle)) = needle

\* dict.get(k, d)
Get(d, k, dflt) == IF k \in DOMAIN d THEN d[k] ELSE dflt

\* d[k] = v
Put(d, k, v) == [x \in DOMAIN d \cup {k} |-> IF x = k THEN v ELSE d[x]]

\* str.format on a template whose placeholders are the tokens in DOMAIN env
Format(tpl, env) ==
    Concat([i \in 1..Len(tpl) |->
              IF tpl[i] \in DOMAIN env THEN env[tpl[i]] ELSE <<tpl[i]>>])

\* the float NaN pandas yields for an empty cell; str(NaN) is "nan"
NaN == <<"<NaN>">>
Str(cell) == IF cell = NaN THEN <<"nan">> ELSE cell

-----------------------------------------------------------------------------
(* Letter case *)

Lowers == <<"a","b","c","d","e","f","g","h","i","j","k","l","m",
            "n","o","p","q","r","s","t","u","v","w","x","y","z">>
Uppers == <<"A","B","C","D","E","F","G","H","I","J","K","L","M",
            "N","O","P","Q","R","S","T","U","V","W","X","Y","Z">>
Digits == {"0","1","2","3","4","5","6","7","8","9"}

LowerChar(c) ==
    IF \E i \in 1..26 : Uppers[i] = c
    THEN Lowers[CHOOSE i \in 1..26 : Uppers[i] = c] ELSE c

LowerChars(cs) == [i \in 1..Len(cs) |-> LowerChar(cs[i])]

RECURSIVE KeepAlnum(_)
\* re.sub(r"[^a-z0-9]", "", s)
KeepAlnum(cs) ==
    IF cs = << >> THEN << >>
    ELSE IF (\E i \in 1..26 : Lowers[i] = Head(cs)) \/ Head(cs) \in Digits
         THEN <<Head(cs)>> \o KeepAlnum(Tail(cs))
         ELSE KeepAlnum(Tail(cs))

-----------------------------------------------------------------------------
(* generate_json_from_excel.py: safe_filename *)

RECURSIVE ReplaceDot0(_)
\* value.replace(".0", ""): every occurrence, scanning left to right
ReplaceDot0(cs) ==
    IF Len(cs) >= 2 /\ cs[1] = "." /\ cs[2] = "0" THEN ReplaceDot0(SubSeq(cs, 3, Len(cs)))
    ELSE IF cs = << >> THEN << >>
    ELSE <<Head(cs)>> \o ReplaceDot0(Tail(cs))

RECURSIVE SubRuns(_, _, _)
\* re.sub(r'[set]+', rep, cs): each maximal run of characters of set becomes rep
SubRuns(cs, set, rep) ==
    IF cs = << >> THEN << >>
    ELSE IF Head(cs) \in set
         THEN IF Len(cs) >= 2 /\ cs[2] \in set
              THEN SubRuns(Tail(cs), set, rep)
              ELSE <<rep>> \o SubRuns(Tail(cs), set, rep)
         ELSE <<Head(cs)>> \o SubRuns(Tail(cs), set, rep)

ForbiddenChars == {"\\", "/", ":", "*", "?", "\"", "<", ">", "|"}

safe_filename(value) ==
    SubRuns(SubRuns(ReplaceDot0(Strip(value)), ForbiddenChars, "-"), WS, " ")

-----------------------------------------------------------------------------
(* content_generators.py: the English block *)

LANGS == <<"ru", "ua", "de", "es", "it", "hr", "hu">>

LangSet == {LANGS[i] : i \in 1..Len(LANGS)}

CG_SECTION_TITLES_en ==
    [description_title |-> "Description", ingredients_title |-> "Ingredients",
     precautions_title |-> "Consumption precautions", history_title |-> "History"]

TEXT_en ==
    [description |-> <<"{title}", " is produced using traditional methods. Made in ",
                       "{country}", ", it reflects the heritage and expertise of the brand.">>,
     ingredients |-> <<"Ingredients may vary depending on the product. Please refer to the packaging for details.">>,
     precautions |-> <<"Store according to package instructions. Check the label for allergen information.">>,
     history |-> << [year |-> <<"Origins">>,
                     text |-> <<"The ", "{brand}", " brand was founded in ", "{country}", ".">>],
                    [year |-> <<"Development">>,
                     text |-> <<"Over time, ", "{brand}", " expanded its range.">>],
                    [year |-> <<"Today">>,
                     text |-> <<"Today, ", "{brand}", " products are enjoyed worldwide.">>] >>]

\* x or y on strings
Or(x, y) == IF x # << >> THEN x ELSE y

\* generate_en_content titling the block with the brand
generate_en_content_brand_title(product, en_block) ==
    LET title   == Get(product, "brand", << >>)
        brand   == Get(product, "brand", << >>)
        country == Get(product, "country_of_origin", << >>)
        env     == ("{title}" :> title) @@ ("{country}" :> country) @@ ("{brand}" :> brand)
        upd     == [title |-> title,
                    sections |-> CG_SECTION_TITLES_en,
                    description |-> Format(TEXT_en.description, env),
                    ingredients |-> TEXT_en.ingredients,
                    precautions |-> TEXT_en.precautions,
                    history |-> [i \in 1..Len(TEXT_en.history) |->
                                   [year |-> TEXT_en.history[i].year,
                                    text |-> Format(TEXT_en.history[i].text, env)]]]
    IN  [k \in DOMAIN en_block \cup DOMAIN upd |->
           IF k \in DOMAIN upd THEN upd[k] ELSE en_block[k]]

generate_en_content(product, en_block) ==
    LET title   == Or(Strip(Get(product, "name", << >>)), Get(product, "brand", << >>))
        brand   == Get(product, "brand", << >>)
        country == Get(product, "country_of_origin", << >>)
        env     == ("{title}" :> title) @@ ("{country}" :> country) @@ ("{brand}" :> brand)
        upd     == [title |-> title,
                    sections |-> CG_SECTION_TITLES_en,
                    description |-> Format(TEXT_en.description, env),
                    ingredients |-> TEXT_en.ingredients,
                    precautions |-> TEXT_en.precautions,
                    history |-> [i \in 1..Len(TEXT_en.history) |->
                                   [year |-> TEXT_en.history[i].year,
                                    text |-> Format(TEXT_en.history[i].text, env)]]]
    IN  [k \in DOMAIN en_block \cup DOMAIN upd |->
           IF k \in DOMAIN upd THEN upd[k] ELSE en_block[k]]

-----------------------------------------------------------------------------
(* i18n_translator.py: the Localizer (texts transliterated to ASCII) *)

SECTION_TITLES ==
    [lang \in LangSet |->
       [description_title |-> lang \o ":Description", ingredients_title |-> lang \o ":Ingredients",
        precautions_title |-> lang \o ":Precautions", history_title |-> lang \o ":History"]]

META_LABELS ==
    [lang \in LangSet |->
       [brand |-> lang \o ":Brand", country_of_origin |-> lang \o ":Country of origin",
        category |-> lang \o ":Category", size |-> lang \o ":Size",
        alcohol_content |-> lang \o ":Alcohol content", sku |-> "SKU"]]

DESC_TPL ==
    [lang \in LangSet |->
       IF lang = "hu"
       THEN <<"A(z) ", "{name}", " a ", "{brand}", " marka termeke ", "{country}",
              " teruleterol. Hagyomanyos eljarassal keszul. A(z) ", "{size}",
              " kiszereles a mindennapokra is idealis.">>
       ELSE <<"{name}", " " \o lang \o ":is a product of the brand ", "{brand}",
              " " \o lang \o ":made in ", "{country}",
              ". " \o lang \o ":Made by traditional methods. The format ", "{size}",
              " " \o lang \o ":suits everyday use and special occasions.">>]

ING_TEXT == [lang \in LangSet |-> <<lang \o ":Ingredients may vary by product. See packaging.">>]

PREC_TEXT == [lang \in LangSet |-> <<lang \o ":Store as directed on the packaging. Check allergens.">>]

HIST_TPL ==
    [lang \in LangSet |->
       << <<lang \o ":The brand ", "{brand}", " was founded in ", "{country}", ".">>,
          <<lang \o ":Over time ", "{brand}", " expanded its range.">>,
          <<lang \o ":Today ", "{brand}", " products are known in many countries.">> >>]

\* i18n_block taking the title from the record's name alone, without the fall-back
\* to the en title
i18n_block_name_only(data, lang) ==
    LET en    == data.i18n["en"]
        name  == Strip(Get(data, "name", << >>))
        upd   == [sections |-> SECTION_TITLES[lang], meta |-> META_LABELS[lang],
                  title |-> name, description |-> <<name>>,
                  ingredients |-> ING_TEXT[lang], precautions |-> PREC_TEXT[lang],
                  history |-> << >>]
    IN  [k \in DOMAIN en \cup DOMAIN upd |-> IF k \in DOMAIN upd THEN upd[k] ELSE en[k]]

\* the block generate_i18n_from_en builds for one language
i18n_block(data, lang) ==
    LET en      == data.i18n["en"]
        name    == Strip(Or(Or(Get(data, "name", << >>), Get(en, "title", << >>)), << >>))
        brand   == Strip(Get(data, "brand", << >>))
        country == Strip(Get(data, "country_of_origin", << >>))
        size    == Strip(Get(data, "size", << >>))
        env     == ("{name}" :> name) @@ ("{brand}" :> brand)
                   @@ ("{country}" :> country) @@ ("{size}" :> size)
        enhist  == Get(en, "history", << >>)
        years   == [i \in 1..Len(enhist) |-> enhist[i].year]
        upd     == [sections |-> SECTION_TITLES[lang],
                    meta |-> META_LABELS[lang],
                    title |-> name,
                    description |-> Format(DESC_TPL[lang], env),
                    ingredients |-> ING_TEXT[lang],
                    precautions |-> PREC_TEXT[lang],
                    history |-> [i \in 1..Len(HIST_TPL[lang]) |->
                                   [year |-> IF i <= Len(years) THEN years[i] ELSE << >>,
                                    text |-> Format(HIST_TPL[lang][i], env)]]]
    IN  [k \in DOMAIN en \cup DOMAIN upd |-> IF k \in DOMAIN upd THEN upd[k] ELSE en[k]]

generate_i18n_from_en(data) ==
    [data EXCEPT !.i18n =
        [l \in DOMAIN data.i18n \cup LangSet |->
           IF l \in LangSet THEN i18n_block(data, l) ELSE data.i18n[l]]]

-----------------------------------------------------------------------------
(* Input files: the spreadsheet rows, the product template, the enriched store *)

Row(id, name, brand, country, dept, size, tags) ==
    [sku_id |-> id, sku_name |-> name, brand |-> brand, country |-> country,
     department |-> dept, size |-> size, tags |-> tags]

RowOlives  == Row(<<"K","1","0","0">>, <<"Olives", " ", "500g">>, <<"KRINOS">>, <<"Greece">>,
                  <<"Pickled / Olives">>, <<"500g">>, <<"greek", ",", "olives">>)
RowFeta    == Row(<<"F","7">>, <<" ", "Feta">>, <<"KRINOS">>, <<"USA">>,
                  <<"Dairy">>, <<"200g">>, << >>)
RowBranded == Row(<<"A","/","B",":","C">>, <<"KRINOS", " ", "Tahini">>, <<"KRINOS">>, <<"Greece">>,
                  <<"Grocery">>, NaN, <<"sesame", ",", " ", ",">>)
RowNoName  == Row(<<" ","1","2","3",".","0">>, <<" ">>, <<"KRINOS">>, <<"Greece">>,
                  <<"Pasta">>, <<"1kg">>, << >>)
RowSpark   == Row(<<"W","1">>, <<"Sparkling", " ", "Water">>, <<"Aqua">>, <<"Italy">>,
                  <<"Water">>, <<"1L">>, <<"water">>)
RowStill   == Row(<<"W","2">>, <<"Still", " ", "Water">>, <<"Aqua">>, <<"Italy">>,
                  <<"Water">>, <<"1L">>, <<"water">>)
RowBoth    == Row(<<"W","3">>, <<"Sparkling", " ", "Water", " ", "Blue">>, <<"Aqua">>, <<"Italy">>,
                  <<"Water">>, <<"1L">>, <<"water">>)
RowNonCarb == Row(<<"W","4">>, <<"Non-Carbonated", " ", "Water">>, <<"Aqua">>, <<"Italy">>,
                  <<"Water">>, <<"1L">>, <<"water">>)
RowPlain   == Row(<<"W","5">>, <<"Spring", " ", "Water">>, <<"Aqua">>, <<"Italy">>,
                  <<"Water">>, <<"1L">>, <<"water">>)
RowNoSku   == Row(<<" ">>, <<"Olives", " ", "500g">>, <<"KRINOS">>, <<"Greece">>,
                  <<"Pickled / Olives">>, <<"500g">>, << >>)

\* the same product in another pack, for the Enricher: same brand and name
RowSparkCan == Row(<<"W","6">>, <<"Sparkling", " ", "Water">>, <<"Aqua">>, <<"Italy">>,
                   <<"Water">>, <<"330ml">>, << >>)

Sheets ==
    { <<RowOlives>>, <<RowFeta>>, <<RowBranded>>, <<RowNoName>>, <<RowSpark>>, <<RowStill>>,
      <<RowBoth>>, <<RowNonCarb>>, <<RowPlain>>,
      <<RowOlives, RowSpark>>, <<RowNoSku, RowFeta>> }

\* SKU IDs as the sheet may hold them: numbers read as floats, decimals, forbidden
\* characters, inner and outer whitespace
SkuIds ==
    { <<"1","2","3",".","0">>,
      <<"1",".","0","5">>,
      <<"1","5">>,
      <<"1","0",".","0","5">>,
      <<"A","/","B",":","C">>,
      <<"a"," ","\t"," ","b">>,
      <<" ","7"," ">>,
      <<"K","1","0","0">> }

\* a row of the sheet under a given SKU ID, named after it
RowWithId(id) == Row(id, id, <<"KRINOS">>, <<"Greece">>, <<"Grocery">>, <<"1kg">>, << >>)

\* sheets of one or two rows over SkuIds
SkuSheets ==
    { <<RowWithId(a)>> : a \in SkuIds } \cup { <<RowWithId(a), RowWithId(b)>> : a, b \in SkuIds }

EN_META ==
    [brand |-> "Brand", country_of_origin |-> "Country of origin", category |-> "Category",
     size |-> "Size", alcohol_content |-> "Alcohol content", sku |-> "SKU"]

\* template_product.json: a bare template, and one whose i18n carries a full en
\* block (with meta) and a stale fr block
TemplateBare == [i18n |-> << >>]
TemplateFull ==
    [i18n |-> ("en" :> [title |-> <<"Product">>, sections |-> CG_SECTION_TITLES_en,
                        meta |-> EN_META, description |-> << >>, ingredients |-> << >>,
                        precautions |-> << >>, history |-> << >>])
              @@ ("fr" :> [title |-> <<"Product">>])]
Templates == {TemplateBare, TemplateFull}

UrlWiki  == <<"h","t","t","p","s",":","/","/","e","n",".","w","i","k","i","p","e","d","i","a",".","o","r","g","/","w","i","k","i","/","K","r","i","n","o","s">>
UrlBrand == <<"h","t","t","p","s",":","/","/","w","w","w",".","k","r","i","n","o","s",".","c","o","m","/","o","l","i","v","e","s">>
UrlAqua  == <<"h","t","t","p","s",":","/","/","a","q","u","a","-","w","a","t","e","r",".","i","t","/">>
UrlShop  == <<"h","t","t","p","s",":","/","/","w","w","w",".","a","m","a","z","o","n",".","c","o","m","/","d","p","/","1">>
UrlBeer  == <<"h","t","t","p","s",":","/","/","m","y","t","h","o","s",".","g","r","/","l","a","g","e","r">>
UrlBlog  == <<"h","t","t","p","s",":","/","/","f","o","o","d",".","b","l","o","g","/","a">>

Source(name, url) == [name |-> name, url |-> url]

\* an entry as enrich_one emits it for a Water SKU
EnrichedWater ==
    [title |-> <<"Water">>,
     description |-> <<"A refreshing ", "still", " mineral water with a clean, crisp finish. Perfect for everyday enjoyment.">>,
     ingredients |-> <<"Ingredients: natural water.">>,
     precautions |-> <<"Store in a cool, dark place. Serve chilled.">>,
     history |-> << [year |-> <<"-">>,
                     text |-> <<"Aqua", " is a recognized brand; see public references for background and brand history.">>] >>,
     sources |-> << Source(<<"Wikipedia">>, UrlWiki), Source(<<"Aqua">>, UrlAqua),
                    Source(<<"Shop">>, UrlShop) >>]

\* a hand-trimmed entry: some fields empty, some absent
EnrichedPartial ==
    [description |-> << >>,
     ingredients |-> <<"x">>,
     history |-> << >>,
     sources |-> << >>]

\* an entry with a long description and only irrelevant sources
EnrichedLong ==
    [title |-> <<"Water">>,
     description |-> <<"Sparkling", " or ", "STILL", ", this mineral water is bottled at the source and keeps a clean, crisp finish from the first sip to the last; it pairs with food, ",
                       "distilled", " spirits and desserts, and it is a convenient choice for quick meals.">>,
     precautions |-> << >>,
     history |-> << [year |-> <<"-">>, text |-> <<"Produced under the ", "KRINOS", " name.">>],
                    [year |-> <<"-">>, text |-> <<"Refer to the manufacturer.">>] >>,
     sources |-> << Source(<<"Wikipedia">>, UrlWiki), Source(<<"Blog">>, UrlBlog) >>]

EnrichedEntries == {EnrichedWater, EnrichedPartial, EnrichedLong}

\* str(row.get("SKU ID", "")).strip(): the key enrich_products.py stores a row under
RowKey(row) == Strip(Str(row.sku_id))

SheetKeys(sh) == {RowKey(sh[i]) : i \in 1..Len(sh)}

\* products_enriched.json: {sku: {"i18n": {"en": entry}}} for some of the sheet's rows
EnrichedStores(sh) ==
    UNION { [ks -> {[i18n |-> [en |-> e]] : e \in EnrichedEntries}] : ks \in SUBSET SheetKeys(sh) }

-----------------------------------------------------------------------------
(* generate_json_from_excel.py: the main loop *)

RECURSIVE SplitComma(_)
\* tags.split(",")
SplitComma(s) ==
    IF \E i \in 1..Len(s) : s[i] = ","
    THEN LET i == CHOOSE j \in 1..Len(s) : s[j] = "," /\ \A k \in 1..(j - 1) : s[k] # ","
         IN  <<SubSeq(s, 1, i - 1)>> \o SplitComma(SubSeq(s, i + 1, Len(s)))
    ELSE <<s>>

\* [t.strip() for t in tags.split(",") if t.strip()]
TagList(tags) ==
    LET parts == SplitComma(tags)
        NonEmpty(t) == t # << >>
    IN  SelectSeq([i \in 1..Len(parts) |-> Strip(parts[i])], NonEmpty)

\* the product record the loop body builds for one row (lines 61-93)
product_of_row(row, tpl) ==
    LET sku   == safe_filename(Strip(Str(row.sku_id)))
        basic == [sku |-> sku,
                  name |-> Strip(Str(row.sku_name)),
                  brand |-> Strip(Str(row.brand)),
                  country_of_origin |-> Strip(Str(row.country)),
                  category |-> Strip(Str(row.department)),
                  size |-> Strip(Str(row.size)),
                  alcohol_content |-> << >>,
                  image |-> <<"../../assets/">> \o sku \o <<".jpg">>,
                  tags |-> TagList(Strip(Str(row.tags))),
                  i18n |-> ("en" :> Get(tpl.i18n, "en", << >>))]
        product == [k \in DOMAIN tpl \cup DOMAIN basic |->
                      IF k \in DOMAIN basic THEN basic[k] ELSE tpl[k]]
        withEn  == [product EXCEPT !.i18n = ("en" :> generate_en_content(product, product.i18n["en"]))]
    IN  generate_i18n_from_en(withEn)

\* a generator that writes a file only where none exists yet
RECURSIVE generate_loop_if_absent(_, _, _)
generate_loop_if_absent(rows, tpl, acc) ==
    IF rows = << >> THEN acc
    ELSE LET row     == Head(rows)
             sku_raw == Strip(Str(row.sku_id))
         IN  IF sku_raw = << >>
             THEN generate_loop_if_absent(Tail(rows), tpl, acc)
             ELSE generate_loop_if_absent(Tail(rows), tpl,
                      [store   |-> IF safe_filename(sku_raw) \in DOMAIN acc.store
                                   THEN acc.store
                                   ELSE Put(acc.store, safe_filename(sku_raw),
                                            product_of_row(row, tpl)),
                       written |-> acc.written \cup {safe_filename(sku_raw)},
                       created |-> acc.created + 1])

RECURSIVE generate_loop(_, _, _)
\* rows in sheet order; a row with an empty SKU ID is skipped; a later row that
\* sanitizes to the same file name overwrites the earlier row's file
generate_loop(rows, tpl, acc) ==
    IF rows = << >> THEN acc
    ELSE LET row     == Head(rows)
             sku_raw == Strip(Str(row.sku_id))
         IN  IF sku_raw = << >>
             THEN generate_loop(Tail(rows), tpl, acc)
             ELSE LET product == product_of_row(row, tpl)
                  IN  generate_loop(Tail(rows), tpl,
                          [store   |-> Put(acc.store, safe_filename(sku_raw), product),
                           written |-> acc.written \cup {safe_filename(sku_raw)},
                           created |-> acc.created + 1])

Generate ==
    /\ LET r == generate_loop(sheet, template,
                              [store |-> content, written |-> {}, created |-> 0])
       IN  /\ content' = r.store
           /\ last' = [op |-> "generate", written |-> r.written, count |-> r.created,
                       replaced |-> {s \in r.written \cap DOMAIN content :
                                        r.store[s] # content[s]}]
    /\ UNCHANGED <<cache, enrich, sheet, template, enriched, products, edits, requests>>

-----------------------------------------------------------------------------
(* merge_enriched_into_content.py *)

FIELDS_TO_MERGE == <<"description", "ingredients", "precautions", "history", "sources">>

\* merge_field without the non-empty test: an empty enriched value overwrites
merge_field_clears(acc, en_new, field) ==
    IF field \in DOMAIN en_new
    THEN IF field \notin DOMAIN acc.en \/ acc.en[field] # en_new[field]
         THEN [en |-> Put(acc.en, field, en_new[field]), changed |-> TRUE]
         ELSE acc
    ELSE acc

\* merge_field without the differs test: every non-empty enriched value is written
merge_field_always(acc, en_new, field) ==
    IF field \in DOMAIN en_new /\ en_new[field] # << >>
    THEN [en |-> Put(acc.en, field, en_new[field]), changed |-> TRUE]
    ELSE acc

\* lines 42-45: one field of the merge loop; acc is [en, changed]
merge_field(acc, en_new, field) ==
    IF field \in DOMAIN en_new /\ en_new[field] # << >>
    THEN IF field \notin DOMAIN acc.en \/ acc.en[field] # en_new[field]
         THEN [en |-> Put(acc.en, field, en_new[field]), changed |-> TRUE]
         ELSE acc
    ELSE acc

RECURSIVE merge_fields(_, _, _)
merge_fields(acc, en_new, fields) ==
    IF fields = << >> THEN acc
    ELSE merge_fields(merge_field(acc, en_new, Head(fields)), en_new, Tail(fields))

\* lines 33-45 for one content file whose SKU is in the enriched store
\* a Merger that also takes the title from the enriched entry
merge_record_with_title(product, entry) ==
    LET i18n   == Get(product, "i18n", << >>)
        en_old == Get(i18n, "en", << >>)
        en_new == Get(Get(entry, "i18n", << >>), "en", << >>)
        r      == merge_fields([en |-> en_old, changed |-> FALSE], en_new,
                               <<"title">> \o FIELDS_TO_MERGE)
    IN  [product |-> Put(product, "i18n", Put(i18n, "en", r.en)), changed |-> r.changed]

merge_record(product, entry) ==
    LET i18n   == Get(product, "i18n", << >>)
        en_old == Get(i18n, "en", << >>)
        en_new == Get(Get(entry, "i18n", << >>), "en", << >>)
        r      == merge_fields([en |-> en_old, changed |-> FALSE], en_new, FIELDS_TO_MERGE)
    IN  [product |-> Put(product, "i18n", Put(i18n, "en", r.en)), changed |-> r.changed]

Merge ==
    /\ content # << >>
    /\ LET found   == {s \in DOMAIN content : s \in DOMAIN enriched}
           changed == {s \in found : merge_record(content[s], enriched[s]).changed}
       IN  /\ content' = [s \in DOMAIN content |->
                            IF s \in changed
                            THEN merge_record(content[s], enriched[s]).product
                            ELSE content[s]]
           /\ last' = [op |-> "merge", written |-> changed,
                       count |-> Cardinality(changed),
                       skipped |-> Cardinality(DOMAIN content \ found)]
    /\ UNCHANGED <<cache, enrich, sheet, template, enriched, products, edits, requests>>

-----------------------------------------------------------------------------
(* Spelling and letter case of the word tokens that the code searches or re-cases:
   the tokens of names, brands, countries and categories, and the words the
   water correction looks for.  Boilerplate pieces are not in these tables. *)

\* the word tokens, in a fixed order
WordTokens ==
    << "Olives", "olives", "OLIVES", "500g", "500G", "Feta", "feta", "FETA", "KRINOS", "krinos",
       "Tahini", "tahini", "TAHINI", "Sparkling", "sparkling", "SPARKLING", "Water", "water",
       "WATER", "Still", "still", "STILL", "Blue", "blue", "BLUE", "Non-Carbonated",
       "non-carbonated", "NON-CARBONATED", "Spring", "spring", "SPRING", "Aqua", "aqua", "AQUA",
       "Product", "product", "PRODUCT", "nan", "NAN", " ", "\t", "Pickled / Olives",
       "pickled / olives", "PICKLED / OLIVES", "Dairy", "dairy", "DAIRY", "Grocery", "grocery",
       "GROCERY", "Pasta", "pasta", "PASTA", "Greece", "greece", "GREECE", "USA", "usa", "Italy",
       "italy", "ITALY", "distilled", "DISTILLED", "1L", "1l", "200g", "200G", "1kg", "1KG",
       "sesame", "milk", "Lager", "Beer", "BREW", "ABV", "Allergen", "Contains", "Storage", "5.2",
       "%", "Krinos", "Non-carbonated", "Nan", "Pickled / olives", "Usa", "Distilled", "1Kg",
       "SESAME", "Sesame", "MILK", "Milk", "lager", "LAGER", "beer", "BEER", "brew", "Brew",
       "abv", "Abv", "allergen", "ALLERGEN", "contains", "CONTAINS", "storage", "STORAGE", "Wine",
       "Spirits", "Juice", "Soft drink", "Confectionery", "Seasoning", "Natural", "Mineral",
       "wine", "WINE", "spirits", "SPIRITS", "juice", "JUICE", "soft drink", "SOFT DRINK",
       "Soft Drink", "confectionery", "CONFECTIONERY", "seasoning", "SEASONING", "natural",
       "NATURAL", "mineral", "MINERAL", "Ingredients", "ingredient", "Sostav", "Nutrition",
       "Directions", "May contain", "Warning", "is", "a", "food", "brand", "Buy", "online",
       "ingredients", "INGREDIENTS", "INGREDIENT", "Ingredient", "sostav", "SOSTAV", "nutrition",
       "NUTRITION", "directions", "DIRECTIONS", "may contain", "MAY CONTAIN", "May Contain",
       "warning", "WARNING", "IS", "Is", "A", "FOOD", "Food", "BRAND", "Brand", "buy", "BUY",
       "ONLINE", "Online", "Watermelon", "Vodka", "Cola", "Cheese", "Chocolate", "Spice", "Mix",
       "Falcon", "Soda", "Bread", "Crumbs", "Red", "Mythos", "Spices", "watermelon", "WATERMELON",
       "vodka", "VODKA", "cola", "COLA", "cheese", "CHEESE", "chocolate", "CHOCOLATE", "spice",
       "SPICE", "mix", "MIX", "falcon", "FALCON", "soda", "SODA", "bread", "BREAD", "crumbs",
       "CRUMBS", "red", "RED", "mythos", "MYTHOS", "spices", "SPICES" >>

\* the characters of each word token
WordSpelling ==
    << <<"O","l","i","v","e","s">>, <<"o","l","i","v","e","s">>, <<"O","L","I","V","E","S">>,
       <<"5","0","0","g">>, <<"5","0","0","G">>, <<"F","e","t","a">>, <<"f","e","t","a">>,
       <<"F","E","T","A">>, <<"K","R","I","N","O","S">>, <<"k","r","i","n","o","s">>,
       <<"T","a","h","i","n","i">>, <<"t","a","h","i","n","i">>, <<"T","A","H","I","N","I">>,
       <<"S","p","a","r","k","l","i","n","g">>, <<"s","p","a","r","k","l","i","n","g">>,
       <<"S","P","A","R","K","L","I","N","G">>, <<"W","a","t","e","r">>, <<"w","a","t","e","r">>,
       <<"W","A","T","E","R">>, <<"S","t","i","l","l">>, <<"s","t","i","l","l">>,
       <<"S","T","I","L","L">>, <<"B","l","u","e">>, <<"b","l","u","e">>, <<"B","L","U","E">>,
       <<"N","o","n","-","C","a","r","b","o","n","a","t","e","d">>,
       <<"n","o","n","-","c","a","r","b","o","n","a","t","e","d">>,
       <<"N","O","N","-","C","A","R","B","O","N","A","T","E","D">>, <<"S","p","r","i","n","g">>,
       <<"s","p","r","i","n","g">>, <<"S","P","R","I","N","G">>, <<"A","q","u","a">>,
       <<"a","q","u","a">>, <<"A","Q","U","A">>, <<"P","r","o","d","u","c","t">>,
       <<"p","r","o","d","u","c","t">>, <<"P","R","O","D","U","C","T">>, <<"n","a","n">>,
       <<"N","A","N">>, <<" ">>, <<"\t">>,
       <<"P","i","c","k","l","e","d"," ","/"," ","O","l","i","v","e","s">>,
       <<"p","i","c","k","l","e","d"," ","/"," ","o","l","i","v","e","s">>,
       <<"P","I","C","K","L","E","D"," ","/"," ","O","L","I","V","E","S">>,
       <<"D","a","i","r","y">>, <<"d","a","i","r","y">>, <<"D","A","I","R","Y">>,
       <<"G","r","o","c","e","r","y">>, <<"g","r","o","c","e","r","y">>,
       <<"G","R","O","C","E","R","Y">>, <<"P","a","s","t","a">>, <<"p","a","s","t","a">>,
       <<"P","A","S","T","A">>, <<"G","r","e","e","c","e">>, <<"g","r","e","e","c","e">>,
       <<"G","R","E","E","C","E">>, <<"U","S","A">>, <<"u","s","a">>, <<"I","t","a","l","y">>,
       <<"i","t","a","l","y">>, <<"I","T","A","L","Y">>, <<"d","i","s","t","i","l","l","e","d">>,
       <<"D","I","S","T","I","L","L","E","D">>, <<"1","L">>, <<"1","l">>, <<"2","0","0","g">>,
       <<"2","0","0","G">>, <<"1","k","g">>, <<"1","K","G">>, <<"s","e","s","a","m","e">>,
       <<"m","i","l","k">>, <<"L","a","g","e","r">>, <<"B","e","e","r">>, <<"B","R","E","W">>,
       <<"A","B","V">>, <<"A","l","l","e","r","g","e","n">>, <<"C","o","n","t","a","i","n","s">>,
       <<"S","t","o","r","a","g","e">>, <<"5",".","2">>, <<"%">>, <<"K","r","i","n","o","s">>,
       <<"N","o","n","-","c","a","r","b","o","n","a","t","e","d">>, <<"N","a","n">>,
       <<"P","i","c","k","l","e","d"," ","/"," ","o","l","i","v","e","s">>, <<"U","s","a">>,
       <<"D","i","s","t","i","l","l","e","d">>, <<"1","K","g">>, <<"S","E","S","A","M","E">>,
       <<"S","e","s","a","m","e">>, <<"M","I","L","K">>, <<"M","i","l","k">>,
       <<"l","a","g","e","r">>, <<"L","A","G","E","R">>, <<"b","e","e","r">>, <<"B","E","E","R">>,
       <<"b","r","e","w">>, <<"B","r","e","w">>, <<"a","b","v">>, <<"A","b","v">>,
       <<"a","l","l","e","r","g","e","n">>, <<"A","L","L","E","R","G","E","N">>,
       <<"c","o","n","t","a","i","n","s">>, <<"C","O","N","T","A","I","N","S">>,
       <<"s","t","o","r","a","g","e">>, <<"S","T","O","R","A","G","E">>, <<"W","i","n","e">>,
       <<"S","p","i","r","i","t","s">>, <<"J","u","i","c","e">>,
       <<"S","o","f","t"," ","d","r","i","n","k">>,
       <<"C","o","n","f","e","c","t","i","o","n","e","r","y">>,
       <<"S","e","a","s","o","n","i","n","g">>, <<"N","a","t","u","r","a","l">>,
       <<"M","i","n","e","r","a","l">>, <<"w","i","n","e">>, <<"W","I","N","E">>,
       <<"s","p","i","r","i","t","s">>, <<"S","P","I","R","I","T","S">>, <<"j","u","i","c","e">>,
       <<"J","U","I","C","E">>, <<"s","o","f","t"," ","d","r","i","n","k">>,
       <<"S","O","F","T"," ","D","R","I","N","K">>, <<"S","o","f","t"," ","D","r","i","n","k">>,
       <<"c","o","n","f","e","c","t","i","o","n","e","r","y">>,
       <<"C","O","N","F","E","C","T","I","O","N","E","R","Y">>,
       <<"s","e","a","s","o","n","i","n","g">>, <<"S","E","A","S","O","N","I","N","G">>,
       <<"n","a","t","u","r","a","l">>, <<"N","A","T","U","R","A","L">>,
       <<"m","i","n","e","r","a","l">>, <<"M","I","N","E","R","A","L">>,
       <<"I","n","g","r","e","d","i","e","n","t","s">>,
       <<"i","n","g","r","e","d","i","e","n","t">>, <<"S","o","s","t","a","v">>,
       <<"N","u","t","r","i","t","i","o","n">>, <<"D","i","r","e","c","t","i","o","n","s">>,
       <<"M","a","y"," ","c","o","n","t","a","i","n">>, <<"W","a","r","n","i","n","g">>,
       <<"i","s">>, <<"a">>, <<"f","o","o","d">>, <<"b","r","a","n","d">>, <<"B","u","y">>,
       <<"o","n","l","i","n","e">>, <<"i","n","g","r","e","d","i","e","n","t","s">>,
       <<"I","N","G","R","E","D","I","E","N","T","S">>,
       <<"I","N","G","R","E","D","I","E","N","T">>, <<"I","n","g","r","e","d","i","e","n","t">>,
       <<"s","o","s","t","a","v">>, <<"S","O","S","T","A","V">>,
       <<"n","u","t","r","i","t","i","o","n">>, <<"N","U","T","R","I","T","I","O","N">>,
       <<"d","i","r","e","c","t","i","o","n","s">>, <<"D","I","R","E","C","T","I","O","N","S">>,
       <<"m","a","y"," ","c","o","n","t","a","i","n">>,
       <<"M","A","Y"," ","C","O","N","T","A","I","N">>,
       <<"M","a","y"," ","C","o","n","t","a","i","n">>, <<"w","a","r","n","i","n","g">>,
       <<"W","A","R","N","I","N","G">>, <<"I","S">>, <<"I","s">>, <<"A">>, <<"F","O","O","D">>,
       <<"F","o","o","d">>, <<"B","R","A","N","D">>, <<"B","r","a","n","d">>, <<"b","u","y">>,
       <<"B","U","Y">>, <<"O","N","L","I","N","E">>, <<"O","n","l","i","n","e">>,
       <<"W","a","t","e","r","m","e","l","o","n">>, <<"V","o","d","k","a">>, <<"C","o","l","a">>,
       <<"C","h","e","e","s","e">>, <<"C","h","o","c","o","l","a","t","e">>,
       <<"S","p","i","c","e">>, <<"M","i","x">>, <<"F","a","l","c","o","n">>, <<"S","o","d","a">>,
       <<"B","r","e","a","d">>, <<"C","r","u","m","b","s">>, <<"R","e","d">>,
       <<"M","y","t","h","o","s">>, <<"S","p","i","c","e","s">>,
       <<"w","a","t","e","r","m","e","l","o","n">>, <<"W","A","T","E","R","M","E","L","O","N">>,
       <<"v","o","d","k","a">>, <<"V","O","D","K","A">>, <<"c","o","l","a">>, <<"C","O","L","A">>,
       <<"c","h","e","e","s","e">>, <<"C","H","E","E","S","E">>,
       <<"c","h","o","c","o","l","a","t","e">>, <<"C","H","O","C","O","L","A","T","E">>,
       <<"s","p","i","c","e">>, <<"S","P","I","C","E">>, <<"m","i","x">>, <<"M","I","X">>,
       <<"f","a","l","c","o","n">>, <<"F","A","L","C","O","N">>, <<"s","o","d","a">>,
       <<"S","O","D","A">>, <<"b","r","e","a","d">>, <<"B","R","E","A","D">>,
       <<"c","r","u","m","b","s">>, <<"C","R","U","M","B","S">>, <<"r","e","d">>, <<"R","E","D">>,
       <<"m","y","t","h","o","s">>, <<"M","Y","T","H","O","S">>, <<"s","p","i","c","e","s">>,
       <<"S","P","I","C","E","S">> >>

\* str.lower() of each word token
WordLower ==
    << "olives", "olives", "olives", "500g", "500g", "feta", "feta", "feta", "krinos", "krinos",
       "tahini", "tahini", "tahini", "sparkling", "sparkling", "sparkling", "water", "water",
       "water", "still", "still", "still", "blue", "blue", "blue", "non-carbonated",
       "non-carbonated", "non-carbonated", "spring", "spring", "spring", "aqua", "aqua", "aqua",
       "product", "product", "product", "nan", "nan", " ", "\t", "pickled / olives",
       "pickled / olives", "pickled / olives", "dairy", "dairy", "dairy", "grocery", "grocery",
       "grocery", "pasta", "pasta", "pasta", "greece", "greece", "greece", "usa", "usa", "italy",
       "italy", "italy", "distilled", "distilled", "1l", "1l", "200g", "200g", "1kg", "1kg",
       "sesame", "milk", "lager", "beer", "brew", "abv", "allergen", "contains", "storage", "5.2",
       "%", "krinos", "non-carbonated", "nan", "pickled / olives", "usa", "distilled", "1kg",
       "sesame", "sesame", "milk", "milk", "lager", "lager", "beer", "beer", "brew", "brew",
       "abv", "abv", "allergen", "allergen", "contains", "contains", "storage", "storage", "wine",
       "spirits", "juice", "soft drink", "confectionery", "seasoning", "natural", "mineral",
       "wine", "wine", "spirits", "spirits", "juice", "juice", "soft drink", "soft drink",
       "soft drink", "confectionery", "confectionery", "seasoning", "seasoning", "natural",
       "natural", "mineral", "mineral", "ingredients", "ingredient", "sostav", "nutrition",
       "directions", "may contain", "warning", "is", "a", "food", "brand", "buy", "online",
       "ingredients", "ingredients", "ingredient", "ingredient", "sostav", "sostav", "nutrition",
       "nutrition", "directions", "directions", "may contain", "may contain", "may contain",
       "warning", "warning", "is", "is", "a", "food", "food", "brand", "brand", "buy", "buy",
       "online", "online", "watermelon", "vodka", "cola", "cheese", "chocolate", "spice", "mix",
       "falcon", "soda", "bread", "crumbs", "red", "mythos", "spices", "watermelon", "watermelon",
       "vodka", "vodka", "cola", "cola", "cheese", "cheese", "chocolate", "chocolate", "spice",
       "spice", "mix", "mix", "falcon", "falcon", "soda", "soda", "bread", "bread", "crumbs",
       "crumbs", "red", "red", "mythos", "mythos", "spices", "spices" >>

\* str.upper() of each word token
WordUpper ==
    << "OLIVES", "OLIVES", "OLIVES", "500G", "500G", "FETA", "FETA", "FETA", "KRINOS", "KRINOS",
       "TAHINI", "TAHINI", "TAHINI", "SPARKLING", "SPARKLING", "SPARKLING", "WATER", "WATER",
       "WATER", "STILL", "STILL", "STILL", "BLUE", "BLUE", "BLUE", "NON-CARBONATED",
       "NON-CARBONATED", "NON-CARBONATED", "SPRING", "SPRING", "SPRING", "AQUA", "AQUA", "AQUA",
       "PRODUCT", "PRODUCT", "PRODUCT", "NAN", "NAN", " ", "\t", "PICKLED / OLIVES",
       "PICKLED / OLIVES", "PICKLED / OLIVES", "DAIRY", "DAIRY", "DAIRY", "GROCERY", "GROCERY",
       "GROCERY", "PASTA", "PASTA", "PASTA", "GREECE", "GREECE", "GREECE", "USA", "USA", "ITALY",
       "ITALY", "ITALY", "DISTILLED", "DISTILLED", "1L", "1L", "200G", "200G", "1KG", "1KG",
       "SESAME", "MILK", "LAGER", "BEER", "BREW", "ABV", "ALLERGEN", "CONTAINS", "STORAGE", "5.2",
       "%", "KRINOS", "NON-CARBONATED", "NAN", "PICKLED / OLIVES", "USA", "DISTILLED", "1KG",
       "SESAME", "SESAME", "MILK", "MILK", "LAGER", "LAGER", "BEER", "BEER", "BREW", "BREW",
       "ABV", "ABV", "ALLERGEN", "ALLERGEN", "CONTAINS", "CONTAINS", "STORAGE", "STORAGE", "WINE",
       "SPIRITS", "JUICE", "SOFT DRINK", "CONFECTIONERY", "SEASONING", "NATURAL", "MINERAL",
       "WINE", "WINE", "SPIRITS", "SPIRITS", "JUICE", "JUICE", "SOFT DRINK", "SOFT DRINK",
       "SOFT DRINK", "CONFECTIONERY", "CONFECTIONERY", "SEASONING", "SEASONING", "NATURAL",
       "NATURAL", "MINERAL", "MINERAL", "INGREDIENTS", "INGREDIENT", "SOSTAV", "NUTRITION",
       "DIRECTIONS", "MAY CONTAIN", "WARNING", "IS", "A", "FOOD", "BRAND", "BUY", "ONLINE",
       "INGREDIENTS", "INGREDIENTS", "INGREDIENT", "INGREDIENT", "SOSTAV", "SOSTAV", "NUTRITION",
       "NUTRITION", "DIRECTIONS", "DIRECTIONS", "MAY CONTAIN", "MAY CONTAIN", "MAY CONTAIN",
       "WARNING", "WARNING", "IS", "IS", "A", "FOOD", "FOOD", "BRAND", "BRAND", "BUY", "BUY",
       "ONLINE", "ONLINE", "WATERMELON", "VODKA", "COLA", "CHEESE", "CHOCOLATE", "SPICE", "MIX",
       "FALCON", "SODA", "BREAD", "CRUMBS", "RED", "MYTHOS", "SPICES", "WATERMELON", "WATERMELON",
       "VODKA", "VODKA", "COLA", "COLA", "CHEESE", "CHEESE", "CHOCOLATE", "CHOCOLATE", "SPICE",
       "SPICE", "MIX", "MIX", "FALCON", "FALCON", "SODA", "SODA", "BREAD", "BREAD", "CRUMBS",
       "CRUMBS", "RED", "RED", "MYTHOS", "MYTHOS", "SPICES", "SPICES" >>

\* str.title() of each word token
WordTitle ==
    << "Olives", "Olives", "Olives", "500G", "500G", "Feta", "Feta", "Feta", "Krinos", "Krinos",
       "Tahini", "Tahini", "Tahini", "Sparkling", "Sparkling", "Sparkling", "Water", "Water",
       "Water", "Still", "Still", "Still", "Blue", "Blue", "Blue", "Non-Carbonated",
       "Non-Carbonated", "Non-Carbonated", "Spring", "Spring", "Spring", "Aqua", "Aqua", "Aqua",
       "Product", "Product", "Product", "Nan", "Nan", " ", "\t", "Pickled / Olives",
       "Pickled / Olives", "Pickled / Olives", "Dairy", "Dairy", "Dairy", "Grocery", "Grocery",
       "Grocery", "Pasta", "Pasta", "Pasta", "Greece", "Greece", "Greece", "Usa", "Usa", "Italy",
       "Italy", "Italy", "Distilled", "Distilled", "1L", "1L", "200G", "200G", "1Kg", "1Kg",
       "Sesame", "Milk", "Lager", "Beer", "Brew", "Abv", "Allergen", "Contains", "Storage", "5.2",
       "%", "Krinos", "Non-Carbonated", "Nan", "Pickled / Olives", "Usa", "Distilled", "1Kg",
       "Sesame", "Sesame", "Milk", "Milk", "Lager", "Lager", "Beer", "Beer", "Brew", "Brew",
       "Abv", "Abv", "Allergen", "Allergen", "Contains", "Contains", "Storage", "Storage", "Wine",
       "Spirits", "Juice", "Soft Drink", "Confectionery", "Seasoning", "Natural", "Mineral",
       "Wine", "Wine", "Spirits", "Spirits", "Juice", "Juice", "Soft Drink", "Soft Drink",
       "Soft Drink", "Confectionery", "Confectionery", "Seasoning", "Seasoning", "Natural",
       "Natural", "Mineral", "Mineral", "Ingredients", "Ingredient", "Sostav", "Nutrition",
       "Directions", "May Contain", "Warning", "Is", "A", "Food", "Brand", "Buy", "Online",
       "Ingredients", "Ingredients", "Ingredient", "Ingredient", "Sostav", "Sostav", "Nutrition",
       "Nutrition", "Directions", "Directions", "May Contain", "May Contain", "May Contain",
       "Warning", "Warning", "Is", "Is", "A", "Food", "Food", "Brand", "Brand", "Buy", "Buy",
       "Online", "Online", "Watermelon", "Vodka", "Cola", "Cheese", "Chocolate", "Spice", "Mix",
       "Falcon", "Soda", "Bread", "Crumbs", "Red", "Mythos", "Spices", "Watermelon", "Watermelon",
       "Vodka", "Vodka", "Cola", "Cola", "Cheese", "Cheese", "Chocolate", "Chocolate", "Spice",
       "Spice", "Mix", "Mix", "Falcon", "Falcon", "Soda", "Soda", "Bread", "Bread", "Crumbs",
       "Crumbs", "Red", "Red", "Mythos", "Mythos", "Spices", "Spices" >>

\* title_case_brand of each word token: lower-cased, usa as USA, then capitalized
WordBrandCase ==
    << "Olives", "Olives", "Olives", "500g", "500g", "Feta", "Feta", "Feta", "Krinos", "Krinos",
       "Tahini", "Tahini", "Tahini", "Sparkling", "Sparkling", "Sparkling", "Water", "Water",
       "Water", "Still", "Still", "Still", "Blue", "Blue", "Blue", "Non-carbonated",
       "Non-carbonated", "Non-carbonated", "Spring", "Spring", "Spring", "Aqua", "Aqua", "Aqua",
       "Product", "Product", "Product", "Nan", "Nan", " ", "\t", "Pickled / Olives",
       "Pickled / Olives", "Pickled / Olives", "Dairy", "Dairy", "Dairy", "Grocery", "Grocery",
       "Grocery", "Pasta", "Pasta", "Pasta", "Greece", "Greece", "Greece", "USA", "USA", "Italy",
       "Italy", "Italy", "Distilled", "Distilled", "1l", "1l", "200g", "200g", "1kg", "1kg",
       "Sesame", "Milk", "Lager", "Beer", "Brew", "Abv", "Allergen", "Contains", "Storage", "5.2",
       "%", "Krinos", "Non-carbonated", "Nan", "Pickled / Olives", "USA", "Distilled", "1kg",
       "Sesame", "Sesame", "Milk", "Milk", "Lager", "Lager", "Beer", "Beer", "Brew", "Brew",
       "Abv", "Abv", "Allergen", "Allergen", "Contains", "Contains", "Storage", "Storage", "Wine",
       "Spirits", "Juice", "Soft Drink", "Confectionery", "Seasoning", "Natural", "Mineral",
       "Wine", "Wine", "Spirits", "Spirits", "Juice", "Juice", "Soft Drink", "Soft Drink",
       "Soft Drink", "Confectionery", "Confectionery", "Seasoning", "Seasoning", "Natural",
       "Natural", "Mineral", "Mineral", "Ingredients", "Ingredient", "Sostav", "Nutrition",
       "Directions", "May Contain", "Warning", "Is", "A", "Food", "Brand", "Buy", "Online",
       "Ingredients", "Ingredients", "Ingredient", "Ingredient", "Sostav", "Sostav", "Nutrition",
       "Nutrition", "Directions", "Directions", "May Contain", "May Contain", "May Contain",
       "Warning", "Warning", "Is", "Is", "A", "Food", "Food", "Brand", "Brand", "Buy", "Buy",
       "Online", "Online", "Watermelon", "Vodka", "Cola", "Cheese", "Chocolate", "Spice", "Mix",
       "Falcon", "Soda", "Bread", "Crumbs", "Red", "Mythos", "Spices", "Watermelon", "Watermelon",
       "Vodka", "Vodka", "Cola", "Cola", "Cheese", "Cheese", "Chocolate", "Chocolate", "Spice",
       "Spice", "Mix", "Mix", "Falcon", "Falcon", "Soda", "Soda", "Bread", "Bread", "Crumbs",
       "Crumbs", "Red", "Red", "Mythos", "Mythos", "Spices", "Spices" >>

WordSet == {WordTokens[i] : i \in 1..Len(WordTokens)}

WordIndex(tok) == CHOOSE i \in 1..Len(WordTokens) : WordTokens[i] = tok

Spelling == [tok \in WordSet |-> WordSpelling[WordIndex(tok)]]
LowerTable == [tok \in WordSet |-> WordLower[WordIndex(tok)]]
UpperTable == [tok \in WordSet |-> WordUpper[WordIndex(tok)]]
TitleTable == [tok \in WordSet |-> WordTitle[WordIndex(tok)]]
BrandCaseTable == [tok \in WordSet |-> WordBrandCase[WordIndex(tok)]]

\* s.lower(), s.upper() on a prose string made of word tokens
Lower(s) == [i \in 1..Len(s) |-> LowerTable[s[i]]]
Upper(s) == [i \in 1..Len(s) |-> UpperTable[s[i]]]

\* the characters of a prose string made of word tokens
Chars(s) == Concat([i \in 1..Len(s) |-> Spelling[s[i]]])

-----------------------------------------------------------------------------
(* post_qc.py *)

\* urlparse(url).netloc
Netloc(url) ==
    IF \E i \in 1..(Len(url) - 2) : url[i] = ":" /\ url[i + 1] = "/" /\ url[i + 2] = "/"
                                    /\ \A j \in 1..(i - 1) : url[j] \notin {":", "/", "?", "#"}
    THEN LET i    == CHOOSE k \in 1..(Len(url) - 2) : url[k] = ":" /\ \A j \in 1..(k - 1) : url[j] # ":"
             rest == SubSeq(url, i + 3, Len(url))
             ends == {k \in 1..Len(rest) : rest[k] \in {"/", "?", "#"}}
         IN  IF ends = {} THEN rest
             ELSE SubSeq(rest, 1, (CHOOSE k \in ends : \A m \in ends : k <= m) - 1)
    ELSE << >>

bad_domains ==
    << <<"w","i","k","i","p","e","d","i","a",".","o","r","g">>, <<"f","a","c","e","b","o","o","k",".","c","o","m">>, <<"i","n","s","t","a","g","r","a","m",".","c","o","m">>, <<"t","w","i","t","t","e","r",".","c","o","m">>,
       <<"p","i","n","t","e","r","e","s","t",".","c","o","m">>, <<"o","p","e","n","t","e","r","m","s","a","r","c","h","i","v","e",".","o","r","g">>, <<"c","b","s","o","x",".","c","o","m">> >>

retailers ==
    << <<"a","m","a","z","o","n">>, <<"w","a","l","m","a","r","t">>, <<"p","u","b","l","i","x">>, <<"m","e","t","r","o">>, <<"w","i","n","n","d","i","x","i","e">>, <<"t","o","t","a","l","w","i","n","e">>,
       <<"i","n","s","t","a","c","a","r","t">>, <<"b","a","k","k","a","l">>, <<"g","a","s","t","r","o","n","o","m">> >>

is_relevant_source(url, brand) ==
    IF url = << >> THEN FALSE
    ELSE LET domain     == LowerChars(Netloc(url))
             brand_key  == KeepAlnum(Chars(Lower(brand)))
             domain_key == KeepAlnum(domain)
             prefix     == SubSeq(brand_key, 1, IF Len(brand_key) < 6 THEN Len(brand_key) ELSE 6)
         IN  IF \E i \in 1..Len(bad_domains) : Contains(domain, bad_domains[i]) THEN FALSE
             ELSE IF brand_key # << >> /\ Contains(domain_key, prefix) THEN TRUE
             ELSE IF \E i \in 1..Len(retailers) : Contains(domain_key, retailers[i]) THEN TRUE
             ELSE FALSE

\* re.sub(r"\bword\b", repl, desc, flags=re.IGNORECASE): a word token matches when
\* its lower-case form is word; boilerplate pieces hold neither word
SubWord(desc, word, repl) ==
    [i \in 1..Len(desc) |->
       IF desc[i] \in DOMAIN LowerTable /\ LowerTable[desc[i]] = word THEN repl ELSE desc[i]]

\* any(k in t for k in markers)
AnyMarker(t, markers) == \E i \in 1..Len(markers) : Contains(Chars(t), markers[i])

still_markers == << <<"N","O","N","-","C","A","R","B","O","N","A","T","E","D">>, <<"S","T","I","L","L">>, <<"B","L","U","E">> >>
sparkling_markers == << <<"S","P","A","R","K","L","I","N","G">>, <<"C","A","R","B","O","N","A","T","E","D">>, <<"G","R","E","E","N">> >>

\* fix_water_description exchanging the two words whenever the title has a marker
fix_water_description_swap(desc, title) ==
    LET t == Upper(title)
    IN  IF AnyMarker(t, still_markers) \/ AnyMarker(t, sparkling_markers)
        THEN [i \in 1..Len(desc) |->
                IF desc[i] \in DOMAIN LowerTable /\ LowerTable[desc[i]] = "sparkling" THEN "still"
                ELSE IF desc[i] \in DOMAIN LowerTable /\ LowerTable[desc[i]] = "still" THEN "sparkling"
                ELSE desc[i]]
        ELSE desc

\* fix_water_description with the second test as an elif: a still marker wins
fix_water_description_elif(desc, title) ==
    LET t == Upper(title)
    IN  IF AnyMarker(t, still_markers) THEN SubWord(desc, "sparkling", "still")
        ELSE IF AnyMarker(t, sparkling_markers) THEN SubWord(desc, "still", "sparkling")
        ELSE desc

fix_water_description(desc, title) ==
    LET t  == Upper(title)
        d1 == IF AnyMarker(t, still_markers) THEN SubWord(desc, "sparkling", "still") ELSE desc
    IN  IF AnyMarker(t, sparkling_markers) THEN SubWord(d1, "still", "sparkling") ELSE d1

PlaceholderSource == [name |-> <<"Public product information">>, url |-> << >>]

\* lines 78-117 for one content file
post_qc_record(data) ==
    LET brand   == Get(data, "brand", << >>)
        cat     == Get(data, "category", << >>)
        i18n    == Get(data, "i18n", << >>)
        en      == Get(i18n, "en", << >>)
        sources == Get(en, "sources", << >>)
        Keep(s) == is_relevant_source(Get(s, "url", << >>), brand)
        clean   == SelectSeq(sources, Keep)
        srcFix  == sources # << >> /\ Len(clean) # Len(sources)
        en1     == IF sources # << >>
                   THEN Put(en, "sources", IF clean = << >> THEN <<PlaceholderSource>> ELSE clean)
                   ELSE en
        desc    == Get(en1, "description", << >>)
        title   == Get(en1, "title", << >>)
        newdesc == IF cat = <<"Water">> THEN fix_water_description(desc, title) ELSE desc
        en2     == IF newdesc # desc THEN Put(en1, "description", newdesc) ELSE en1
    IN  [data |-> IF "en" \in DOMAIN i18n THEN Put(data, "i18n", Put(i18n, "en", en2)) ELSE data,
         fixed_sources |-> srcFix,
         fixed_water |-> newdesc # desc,
         changed |-> srcFix \/ newdesc # desc]

PostQC ==
    /\ content # << >>
    /\ LET changed == {s \in DOMAIN content : post_qc_record(content[s]).changed}
       IN  /\ content' = [s \in DOMAIN content |->
                            IF s \in changed THEN post_qc_record(content[s]).data ELSE content[s]]
           /\ last' = [op |-> "post_qc", written |-> changed,
                       count |-> Cardinality(DOMAIN content),
                       fixed_sources |-> Cardinality({s \in DOMAIN content :
                                                        post_qc_record(content[s]).fixed_sources}),
                       fixed_water |-> Cardinality({s \in DOMAIN content :
                                                      post_qc_record(content[s]).fixed_water})]
    /\ UNCHANGED <<cache, enrich, sheet, template, enriched, products, edits, requests>>

-----------------------------------------------------------------------------
(* premium_pass.py *)

DescThreshold == 180
IngThreshold == 60

additions ==
    (<<"W","A","T","E","R">> :> "Carefully sourced and valued for its purity and everyday refreshment, it is well suited for daily hydration at home or on the go.")
    @@ (<<"C","E","R","E","A","L">> :> "Prepared using traditional methods, this product is appreciated for its consistent quality and versatility in everyday home cooking.")
    @@ (<<"B","E","E","R">> :> "Brewed with attention to balance and character, it reflects the heritage and craftsmanship associated with its style.")
    @@ (<<"P","A","S","T","A">> :> "Made to deliver reliable texture and taste, it is suitable for a wide range of classic and modern recipes.")

enhance_description(desc, category) ==
    IF desc = << >> THEN desc
    ELSE IF CharLen(desc) > DescThreshold THEN desc
    ELSE LET key   == Chars(Upper(category))
             extra == IF key \in DOMAIN additions THEN additions[key]
                      ELSE "Valued for its consistent quality and suitability for everyday use."
         IN  Strip(desc) \o <<" ", extra>>

enhance_ingredients(ing) ==
    IF ing = << >> THEN ing
    ELSE IF CharLen(ing) > IngThreshold THEN ing
    ELSE Strip(ing) \o <<" Commonly used in traditional recipes and everyday cooking.">>

HistoryMin == 3

enhance_history(history, brand, category, country) ==
    IF history = << >> \/ Len(history) >= HistoryMin THEN history
    ELSE << [year |-> <<"Origins">>,
             text |-> <<"The ">> \o brand \o <<" brand originates from ">>
                      \o (IF country # << >> THEN country ELSE <<"its region of production">>)
                      \o <<", reflecting local traditions and expertise.">>],
            [year |-> <<"Production">>,
             text |-> <<"Over time, ">> \o brand
                      \o <<" has focused on maintaining consistent quality and careful production standards within the ">>
                      \o Lower(category) \o <<" category.">>],
            [year |-> <<"Today">>,
             text |-> <<"Today, ">> \o brand
                      \o <<" products are appreciated for their reliability and suitability for everyday use.">>] >>

\* lines 57-87 for one content file
premium_record(data) ==
    LET i18n     == Get(data, "i18n", << >>)
        en       == Get(i18n, "en", << >>)
        category == Get(data, "category", << >>)
        brand    == Get(data, "brand", <<"the brand">>)
        country  == Get(data, "country_of_origin", << >>)
        desc     == Get(en, "description", << >>)
        new_desc == enhance_description(desc, category)
        en1      == IF new_desc # desc THEN Put(en, "description", new_desc) ELSE en
        ing      == Get(en, "ingredients", << >>)
        new_ing  == enhance_ingredients(ing)
        en2      == IF new_ing # ing THEN Put(en1, "ingredients", new_ing) ELSE en1
        hist     == Get(en, "history", << >>)
        new_hist == enhance_history(hist, brand, category, country)
        en3      == IF new_hist # hist THEN Put(en2, "history", new_hist) ELSE en2
    IN  IF en = << >> THEN [data |-> data, changed |-> FALSE]
        ELSE [data |-> Put(data, "i18n", Put(i18n, "en", en3)),
              changed |-> new_desc # desc \/ new_ing # ing \/ new_hist # hist]

PremiumPass ==
    /\ content # << >>
    /\ LET changed == {s \in DOMAIN content : premium_record(content[s]).changed}
       IN  /\ content' = [s \in DOMAIN content |->
                            IF s \in changed THEN premium_record(content[s]).data ELSE content[s]]
           /\ last' = [op |-> "premium", written |-> changed, count |-> Cardinality(changed)]
    /\ UNCHANGED <<cache, enrich, sheet, template, enriched, products, edits, requests>>

-----------------------------------------------------------------------------
(* generate_pages.py *)

LANG_MAP ==
    << <<"en", <<"i","n","d","e","x",".","h","t","m","l">>>>, <<"ru", <<"r","u",".","h","t","m","l">>>>, <<"ua", <<"u","a",".","h","t","m","l">>>>, <<"de", <<"d","e",".","h","t","m","l">>>>,
       <<"es", <<"e","s",".","h","t","m","l">>>>, <<"it", <<"i","t",".","h","t","m","l">>>>, <<"hr", <<"h","r",".","h","t","m","l">>>>, <<"hu", <<"h","u",".","h","t","m","l">>>> >>

\* lines 57-70: one block per history entry, entries with empty text omitted
history_html(i18n) ==
    LET labels  == Get(i18n, "history_labels", << >>)
        hist    == Get(i18n, "history", << >>)
        items   == [i \in 1..Len(hist) |->
                      [label |-> Get(labels, Get(hist[i], "key", ""), ""),
                       text  |-> Get(hist[i], "text", << >>)]]
        Shown(it) == it.text # << >>
    IN  SelectSeq(items, Shown)

\* lines 44-103: the values substituted into the template for one language
render_page(data, sku, lang) ==
    LET i18n     == Get(data.i18n, lang, << >>)
        sections == Get(i18n, "sections", << >>)
        meta     == Get(i18n, "meta", << >>)
    IN  [TITLE |-> Or(Or(Or(Get(data, "name", << >>), Get(data, "sku_name", << >>)),
                         Get(data, "title", << >>)), << >>),
         TAGS |-> Get(data, "tags", << >>),
         BRAND_LABEL |-> Get(meta, "brand", ""),
         COUNTRY_LABEL |-> Get(meta, "country_of_origin", ""),
         CATEGORY_LABEL |-> Get(meta, "category", ""),
         SIZE_LABEL |-> Get(meta, "size", ""),
         ALCOHOL_LABEL |-> Get(meta, "alcohol_content", ""),
         BRAND |-> Get(data, "brand", << >>),
         COUNTRY |-> Get(data, "country_of_origin", << >>),
         CATEGORY |-> Get(data, "category", << >>),
         SIZE |-> Get(data, "size", << >>),
         ALCOHOL |-> Get(data, "alcohol_content", << >>),
         SKU |-> sku,
         DESC_TITLE |-> Get(sections, "description_title", ""),
         ING_TITLE |-> Get(sections, "ingredients_title", ""),
         PREC_TITLE |-> Get(sections, "precautions_title", ""),
         HISTORY_TITLE |-> Get(sections, "history_title", ""),
         DESCRIPTION |-> Get(i18n, "description", << >>),
         INGREDIENTS |-> Get(i18n, "ingredients", << >>),
         PRECAUTIONS |-> Get(i18n, "precautions", << >>),
         HISTORY_ITEMS |-> history_html(i18n)]

\* str(data.get("sku", "")).strip()
page_sku(data) == Strip(Get(data, "sku", << >>))

\* data["i18n"] raises KeyError for a record without an i18n mapping
render_raises(data) == page_sku(data) # << >> /\ "i18n" \notin DOMAIN data

\* render_record writing a page only for the languages the record has a block for
render_record_present(data) ==
    LET sku == page_sku(data)
    IN  IF sku = << >> \/ render_raises(data) THEN << >>
        ELSE [f \in {<<sku, LANG_MAP[i][2]>> : i \in {j \in 1..Len(LANG_MAP) :
                                                        LANG_MAP[j][1] \in DOMAIN data.i18n}} |->
                render_page(data, sku,
                            LANG_MAP[CHOOSE i \in 1..Len(LANG_MAP) : LANG_MAP[i][2] = f[2]][1])]

\* the files one record's loop body writes: <<sku, file name>> -> page
render_record(data) ==
    LET sku == page_sku(data)
    IN  IF sku = << >> \/ render_raises(data) THEN << >>
        ELSE [f \in {<<sku, LANG_MAP[i][2]>> : i \in 1..Len(LANG_MAP)} |->
                render_page(data, sku,
                            LANG_MAP[CHOOSE i \in 1..Len(LANG_MAP) : LANG_MAP[i][2] = f[2]][1])]

\* pages of the files in done overlaid on the existing output tree
render_files(done, old) ==
    LET new == {f \in UNION {DOMAIN render_record(content[s]) : s \in done} : TRUE}
        From(f) == CHOOSE s \in done : f \in DOMAIN render_record(content[s])
    IN  [f \in DOMAIN old \cup new |->
           IF f \in new THEN render_record(content[From(f)])[f] ELSE old[f]]

\* one run of the script: every content file in directory order; the run stops at
\* the first record that raises, after the files glob yielded before it
render_run(op) ==
    LET raising == {s \in DOMAIN content : render_raises(content[s])}
    IN  \E done \in SUBSET (DOMAIN content \ raising) :
          /\ raising = {} => done = DOMAIN content
          /\ products' = render_files(done, products)
          /\ last' = [op |-> op,
                      status |-> IF raising = {} THEN "ok" ELSE "raised",
                      written |-> UNION {DOMAIN render_record(content[s]) : s \in done}]

Render ==
    /\ render_run("render")
    /\ UNCHANGED <<cache, enrich, sheet, template, enriched, content, edits, requests>>

-----------------------------------------------------------------------------
(* app.py: the Edit Service *)

\* bound on the number of update requests in one behaviour
MaxEdits == 1

\* request bodies of POST /api/product/<sku>
EditBodies ==
    { [lang |-> "fr", description |-> <<"Novoe opisanie">>],
      [lang |-> "ru", description |-> <<"Novoe opisanie">>],
      [lang |-> "ru", ingredients |-> <<"Sol">>, precautions |-> << >>,
       history |-> << [year |-> <<"2020">>, text |-> <<"Osnovano">>] >>],
      [lang |-> "en", description |-> <<"A ", "still", " water">>, history |-> << >>] }

\* SKUs a request may name: the stored ones and one that has no file
UnknownSku == <<"Z","9">>
RequestSkus == DOMAIN content \cup {UnknownSku}

\* save_record setting only the fields the body carries
save_record_given(product, data) ==
    LET lang  == data.lang
        i18n  == Get(product, "i18n", << >>)
        block == IF lang \notin DOMAIN i18n THEN << >> ELSE i18n[lang]
        given == DOMAIN data \ {"lang"}
    IN  Put(product, "i18n",
            Put(i18n, lang, [k \in DOMAIN block \cup given |->
                               IF k \in given THEN data[k] ELSE block[k]]))

\* an update that stores the posted block as the record's only language block
save_record_only_lang(product, data) ==
    Put(product, "i18n",
        data.lang :> [description |-> Get(data, "description", << >>),
                      ingredients |-> Get(data, "ingredients", << >>),
                      precautions |-> Get(data, "precautions", << >>),
                      history |-> Get(data, "history", << >>)])

\* lines 51-60: the record after the update
save_record(product, data) ==
    LET lang  == data.lang
        i18n  == Get(product, "i18n", << >>)
        block == IF lang \notin DOMAIN i18n THEN << >> ELSE i18n[lang]
        upd   == [description |-> Get(data, "description", << >>),
                  ingredients |-> Get(data, "ingredients", << >>),
                  precautions |-> Get(data, "precautions", << >>),
                  history |-> Get(data, "history", << >>)]
    IN  Put(product, "i18n",
            Put(i18n, lang, [k \in DOMAIN block \cup DOMAIN upd |->
                               IF k \in DOMAIN upd THEN upd[k] ELSE block[k]]))

\* the update requests served at the same time, each by a thread of its own
Requests == {1, 2}

NoRequests == [r \in Requests |-> [pc |-> "idle"]]

\* the requests whose file write is complete
Saved == {q \in Requests : requests[q].pc = "done"}

\* lines 43-46 and 48: the handler looks the file up and takes the posted body
save_begin(r, sku, data) ==
    /\ requests[r].pc = "idle"
    /\ requests' = [requests EXCEPT ![r] =
                      IF sku \notin DOMAIN content
                      THEN [pc |-> "done", sku |-> sku, data |-> data, status |-> 404,
                            after |-> Saved]
                      ELSE [pc |-> "read", sku |-> sku, data |-> data]]
    /\ last' = [op |-> "save_begin", request |-> r, written |-> {}]
    /\ UNCHANGED <<cache, enrich, sheet, template, enriched, content, products, edits>>

\* line 49: the handler reads the file into its own product
save_read(r) ==
    /\ requests[r].pc = "read"
    /\ requests' = [requests EXCEPT ![r] =
                      [pc |-> "write", sku |-> requests[r].sku, data |-> requests[r].data,
                       product |-> content[requests[r].sku], after |-> Saved]]
    /\ last' = [op |-> "save_read", request |-> r, written |-> {}]
    /\ UNCHANGED <<cache, enrich, sheet, template, enriched, content, products, edits>>

\* lines 51-67: the handler updates its product and writes it over the file
save_write(r) ==
    /\ requests[r].pc = "write"
    /\ content' = [content EXCEPT ![requests[r].sku] =
                      save_record(requests[r].product, requests[r].data)]
    /\ requests' = [requests EXCEPT ![r] =
                      [pc |-> "done", sku |-> requests[r].sku, data |-> requests[r].data,
                       status |-> 200, after |-> requests[r].after]]
    /\ last' = [op |-> "save_write", request |-> r, written |-> {requests[r].sku}]
    /\ UNCHANGED <<cache, enrich, sheet, template, enriched, products, edits>>

\* lines 34, 46: the payload of a 404 answer
NotFound == [error |-> "SKU not found"]

\* save_product creating the file of a SKU that has none
save_product_upsert(sku, data) ==
    /\ edits < MaxEdits
    /\ edits' = edits + 1
    /\ content' = (sku :> save_record(IF sku \in DOMAIN content THEN content[sku] ELSE << >>,
                                      data)) @@ content
    /\ last' = [op |-> "save", sku |-> sku, status |-> 200, data |-> data, written |-> {sku}]
    /\ UNCHANGED <<cache, enrich, sheet, template, enriched, products, requests>>

save_product(sku, data) ==
    /\ edits < MaxEdits
    /\ edits' = edits + 1
    /\ IF sku \notin DOMAIN content
       THEN /\ last' = [op |-> "save", sku |-> sku, status |-> 404, data |-> data,
                        written |-> {}, body |-> NotFound]
            /\ UNCHANGED content
       ELSE /\ content' = [content EXCEPT ![sku] = save_record(content[sku], data)]
            /\ last' = [op |-> "save", sku |-> sku, status |-> 200, data |-> data,
                        written |-> {sku}]
    /\ UNCHANGED <<cache, enrich, sheet, template, enriched, products, requests>>

get_product(sku) ==
    /\ last' = IF sku \notin DOMAIN content
               THEN [op |-> "get", sku |-> sku, status |-> 404, written |-> {},
                     body |-> NotFound]
               ELSE [op |-> "get", sku |-> sku, status |-> 200, written |-> {},
                     body |-> content[sku]]
    /\ UNCHANGED <<cache, enrich, sheet, template, enriched, content, products, edits, requests>>

list_skus ==
    /\ last' = [op |-> "list", status |-> 200, written |-> {}, body |-> DOMAIN content]
    /\ UNCHANGED <<cache, enrich, sheet, template, enriched, content, products, edits, requests>>

\* runs generate_pages.py for the whole store, whatever sku is named
rebuild_html(sku) ==
    /\ render_run("rebuild")
    /\ UNCHANGED <<cache, enrich, sheet, template, enriched, content, edits, requests>>

-----------------------------------------------------------------------------

(* enrich_products.py: the Enricher *)

\* clean_spaces: stripped, every run of whitespace a single space
clean_spaces(s) == SubRuns(Strip(s), WS, " ")

\* title_case_brand: each word lower-cased, usa as USA, then capitalized
title_case_brand(s) == LET c == clean_spaces(s) IN [i \in 1..Len(c) |-> BrandCaseTable[c[i]]]

\* normalize_name: clean_spaces, underscores to spaces
normalize_name(s) ==
    LET c == clean_spaces(s) IN [i \in 1..Len(c) |-> IF c[i] = "_" THEN " " ELSE c[i]]

\* "KEY" in n or "KEY" in d, on the upper-cased strings
InUpper(key, s) == Contains(Chars(Upper(s)), key)

\* a classifier that knows the Water rule only
guess_category_water_only(dept, name) ==
    IF InUpper(<<"W","A","T","E","R">>, name) \/ InUpper(<<"W","A","T","E","R">>, dept) THEN <<"Water">> ELSE <<"Grocery">>

guess_category(dept, name) ==
    IF InUpper(<<"W","A","T","E","R">>, name) \/ InUpper(<<"W","A","T","E","R">>, dept) THEN <<"Water">>
    ELSE IF InUpper(<<"B","E","E","R">>, name) \/ InUpper(<<"B","E","E","R">>, dept) THEN <<"Beer">>
    ELSE IF InUpper(<<"W","I","N","E">>, name) \/ InUpper(<<"W","I","N","E">>, dept) THEN <<"Wine">>
    ELSE IF \/ InUpper(<<"V","O","D","K","A">>, name) \/ InUpper(<<"W","H","I","S">>, name) \/ InUpper(<<"R","U","M">>, name)
            \/ InUpper(<<"T","E","Q","U","I","L","A">>, name) \/ InUpper(<<"S","P","I","R","I","T","S">>, dept) THEN <<"Spirits">>
    ELSE IF InUpper(<<"J","U","I","C","E">>, name) THEN <<"Juice">>
    ELSE IF \/ InUpper(<<"S","O","D","A">>, name) \/ InUpper(<<"S","O","F","T"," ","D","R","I","N","K">>, name)
            \/ InUpper(<<"C","O","L","A">>, name) THEN <<"Soft drink">>
    ELSE IF InUpper(<<"C","H","E","E","S","E">>, name) \/ InUpper(<<"D","A","I","R","Y">>, dept) THEN <<"Dairy">>
    ELSE IF \/ InUpper(<<"C","H","O","C">>, name) \/ InUpper(<<"C","A","N","D","Y">>, name)
            \/ InUpper(<<"C","O","N","F","E","C","T","I","O","N">>, dept) THEN <<"Confectionery">>
    ELSE IF InUpper(<<"P","I","C","K","L","E","D">>, name) \/ InUpper(<<"O","L","I","V","E">>, name) THEN <<"Pickled / Olives">>
    ELSE IF \/ InUpper(<<"S","P","I","C","E","S">>, dept) \/ InUpper(<<"S","P","I","C","E">>, name)
            \/ InUpper(<<"S","E","A","S","O","N">>, name) THEN <<"Seasoning">>
    ELSE <<"Grocery">>

size_to_serving_hint(size) ==
    IF Strip(size) = << >> THEN << >> ELSE <<" (">> \o Strip(size) \o <<")">>

is_alcohol(category, name) ==
    \/ Lower(category) \in {<<"beer">>, <<"wine">>, <<"spirits">>}
    \/ Contains(Chars(Lower(name)), <<"a","b","v">>)
    \/ Contains(Chars(Lower(name)), <<"a","l","c">>)

\* WebDoc
WebDoc(url, title, text) == [url |-> url, title |-> title, text |-> text]

\* what requests.get and the extraction give for a URL that answers: texts as
\* trafilatura returns them; pieces outside the word tables are lower-case
\* boilerplate holding no keyword
Page(url) ==
    IF url = UrlBeer THEN WebDoc(url, <<"Mythos">>,
           <<"Mythos", " ", "Lager", " ", "Beer", ". ", "brewed since the last century with malt and hops from the north of the country, it is served cold in tavernas and at home, and it goes well with grilled meat and salads", ". ", "5.2", "%", " ", "ABV", ".">>)
    ELSE IF url = UrlBrand THEN WebDoc(url, <<"KRINOS", " ", "Olives">>,
           <<"KRINOS", " ", "Olives", " ", "this family company has been making mediterranean foods for many years and ships them to grocery stores in every state of the country and to many partners abroad, with care for quality at each step", ". ", "Ingredients", ": ", "olives", ", ", "water", ", ", "sesame", " oil and sea salt", ". ", "Allergen", " information is printed on the pack.">>)
    ELSE IF url = UrlWiki THEN WebDoc(url, <<"Krinos", " - Wikipedia">>,
           <<"KRINOS", " ", "is", " ", "a", " ", "food", " ", "brand", ". ", "the company was set up by a family of merchants and grew over the decades into a well known importer and producer of speciality foods, with offices and warehouses in several cities and a wide network of partners">>)
    ELSE IF url = UrlAqua THEN WebDoc(url, <<"Aqua">>,
           <<"Aqua", " ", "Mineral", " ", "Water", ". ", "our source lies deep in the mountains, where the water is filtered by layers of rock over many years before it is bottled at the spring with great care and sent to shops and restaurants around the region", ". ", "Contains", " natural minerals.">>)
    ELSE WebDoc(url, << >>,
           <<"Buy", " ", "Olives", " ", "online", ".">>)

\* s[:n] on a prose string: the pieces that fit whole
RECURSIVE Truncate(_, _)
Truncate(s, n) ==
    IF s = << >> \/ Len(Head(s)) > n THEN << >>
    ELSE <<Head(s)>> \o Truncate(Tail(s), n - Len(Head(s)))

\* str.lower() of a page text: word tokens by the table, boilerplate as it is
DocLower(s) == [i \in 1..Len(s) |-> IF s[i] \in WordSet THEN LowerTable[s[i]] ELSE s[i]]

\* a piece made only of the characters strip(" .;") removes
RECURSIVE StripBlob(_)
StripBlob(s) ==
    IF s = << >> THEN << >>
    ELSE IF Head(s) \in {" ", ".", ";", ". ", "; "} THEN StripBlob(Tail(s))
    ELSE IF s[Len(s)] \in {" ", ".", ";", ". ", "; "} THEN StripBlob(SubSeq(s, 1, Len(s) - 1))
    ELSE s

\* one pattern of extract_ingredients: the first place where a marker word and its
\* separator are followed by at least 20 characters
ingredients_match(text, markers) ==
    LET low  == DocLower(text)
        hits == {i \in 1..(Len(text) - 1) :
                    /\ low[i] \in markers
                    /\ text[i + 1] \in {":", ": ", "-", " - ", " : "}
                    /\ CharLen(SubSeq(text, i + 2, Len(text))) >= 20}
    IN  IF hits = {} THEN << >>
        ELSE LET i     == CHOOSE k \in hits : \A m \in hits : k <= m
                 rest  == Truncate(SubSeq(text, i + 2, Len(text)), 400)
                 lrest == DocLower(rest)
                 stops == {k \in 1..Len(rest) : lrest[k] \in {"nutrition", "allergen", "storage", "directions", "contains", "may contain", "warning"}}
                 cut   == IF stops = {} THEN rest
                          ELSE SubSeq(rest, 1, (CHOOSE k \in stops : \A m \in stops : k <= m) - 1)
                 blob  == StripBlob(clean_spaces(cut))
             IN  IF CharLen(blob) >= 15 THEN <<"Ingredients: ">> \o blob \o <<".">> ELSE << >>

\* extract_ingredients; << >> stands for None
extract_ingredients(text) ==
    IF text = << >> THEN << >>
    ELSE LET first == ingredients_match(text, {"ingredient", "ingredients"})
         IN  IF first # << >> THEN first ELSE ingredients_match(text, {"sostav"})

\* extract_allergens: the names of the list whose words occur in the text, in the
\* order of the list
extract_allergens(text) ==
    LET allergen_candidates ==
            << <<"gluten", {"gluten"}>>, <<"wheat", {"wheat"}>>, <<"barley", {"barley"}>>,
            <<"milk", {"milk", "dairy"}>>, <<"soy", {"soy", "soya"}>>, <<"egg", {"egg"}>>,
            <<"peanuts", {"peanut"}>>,
            <<"tree nuts", {"almond", "hazelnut", "walnut", "cashew", "pistachio", "pecan"}>>,
            <<"sesame", {"sesame"}>>, <<"fish", {"fish"}>>,
            <<"shellfish", {"shellfish", "shrimp", "crab", "lobster"}>> >>
        low      == DocLower(text)
        Found(c) == \E i \in 1..Len(low) : low[i] \in c[2]
        found    == SelectSeq(allergen_candidates, Found)
    IN  [i \in 1..Len(found) |-> found[i][1]]

\* extract_abv: number, optional %, optional spaces, ABV; or alc(ohol), number, %;
\* << >> stands for None
extract_abv(text) ==
    LET IsNumber(tok) ==
            /\ tok \in WordSet
            /\ Spelling[tok] # << >>
            /\ \A i \in 1..Len(Spelling[tok]) : Spelling[tok][i] \in Digits \cup {"."}
            /\ Spelling[tok][1] \in Digits
        low   == DocLower(text)
        Gap(k) == IF k <= Len(text) /\ text[k] \in WS THEN k + 1 ELSE k
        first == {i \in 1..Len(text) :
                    /\ IsNumber(text[i])
                    /\ LET j == Gap(i + 1)
                           k == Gap(IF j <= Len(text) /\ text[j] = "%" THEN j + 1 ELSE j)
                       IN  k <= Len(low) /\ low[k] = "abv"}
        second == {i \in 1..Len(text) :
                    /\ IsNumber(text[i])
                    /\ i > 1 /\ i < Len(text)
                    /\ text[Gap(i + 1)] = "%"
                    /\ \E j \in 1..(i - 1) :
                          /\ low[j] \in {"alc", "alcohol"}
                          /\ \A k \in (j + 1)..(i - 1) : text[k] \in WS \cup {":", "-", ": "}}
    IN  IF text = << >> THEN << >>
        ELSE IF first # {}
             THEN <<text[CHOOSE k \in first : \A m \in first : k <= m], "% ABV">>
        ELSE IF second # {}
             THEN <<text[CHOOSE k \in second : \A m \in second : k <= m], "% ABV">>
        ELSE << >>

RECURSIVE AlnumRuns(_)
\* re.findall(r"[a-z0-9]+", cs): the maximal runs of letters and digits
AlnumRuns(cs) ==
    IF cs = << >> THEN << >>
    ELSE IF KeepAlnum(<<Head(cs)>>) = << >> THEN AlnumRuns(Tail(cs))
    ELSE LET ends == {k \in 1..Len(cs) : KeepAlnum(<<cs[k]>>) = << >>}
             n    == IF ends = {} THEN Len(cs)
                     ELSE (CHOOSE k \in ends : \A m \in ends : k <= m) - 1
         IN  <<SubSeq(cs, 1, n)>> \o AlnumRuns(SubSeq(cs, n + 1, Len(cs)))

\* the relevance score pick_best_docs gives a document
doc_score(d, sku_name, brand) ==
    LET bn   == Lower(brand)
        hay  == DocLower(d.title \o <<" ">> \o Truncate(d.text, 2000))
        runs == AlnumRuns(Chars(Lower(sku_name)))
        toks == SubSeq(runs, 1, IF Len(runs) < 8 THEN Len(runs) ELSE 8)
        InHay(c) == \E i \in 1..Len(hay) : hay[i] \in WordSet /\ Contains(Spelling[hay[i]], c)
        hits == Cardinality({i \in 1..Len(toks) : Len(toks[i]) >= 4 /\ InHay(toks[i])})
    IN  (IF bn # << >> /\ Contains(hay, bn) THEN 25 ELSE 0)
        + 3 * hits
        + (IF 200 < CharLen(d.text) /\ CharLen(d.text) < 12000 THEN 5 ELSE 0)

RECURSIVE RankDocs(_, _, _)
\* ranked.sort(key=score, reverse=True): stable, highest score first
RankDocs(docs, sku_name, brand) ==
    IF docs = << >> THEN << >>
    ELSE LET S(d)  == doc_score(d, sku_name, brand)
             best  == CHOOSE i \in 1..Len(docs) :
                         /\ \A j \in 1..Len(docs) : S(docs[j]) <= S(docs[i])
                         /\ \A j \in 1..(i - 1) : S(docs[j]) < S(docs[i])
             rest  == SubSeq(docs, 1, best - 1) \o SubSeq(docs, best + 1, Len(docs))
         IN  <<docs[best]>> \o RankDocs(rest, sku_name, brand)

pick_best_docs(docs, sku_name, brand) ==
    LET ranked == RankDocs(docs, sku_name, brand)
    IN  SubSeq(ranked, 1, IF Len(ranked) < 3 THEN Len(ranked) ELSE 3)

openers ==
    <<"A well-balanced", "A classic", "A refreshing", "A flavorful", "A smooth",
      "A bright and satisfying">>

finishes ==
    <<"Great chilled or served as directed on the label.", "Perfect for everyday enjoyment.",
      "An easy pick for your pantry and your table.", "Ideal for sharing, pairing, or snacking.",
      "A convenient choice for quick meals and moments.">>

\* generate_description with the two phrases random.choice drew
generate_description(category, sku_name, size, abv, op, fin) ==
    LET s_hint == size_to_serving_hint(size)
        extra  == IF abv # << >> THEN <<" (">> \o abv \o <<")">> ELSE << >>
        sparkle == IF InUpper(<<"S","P","A","R","K","L","I","N","G">>, sku_name) \/ InUpper(<<"C","A","R","B","O","N","A","T","E","D">>, sku_name)
                   THEN "sparkling" ELSE "still"
    IN  IF category = <<"Water">>
        THEN <<op, " ", sparkle, " mineral water">> \o s_hint
             \o <<" with a clean, crisp finish. ", fin>>
        ELSE IF category = <<"Beer">>
        THEN <<op, " beer">> \o extra \o s_hint
             \o <<" with a lively character and a smooth finish. ", fin>>
        ELSE IF category = <<"Wine">>
        THEN <<op, " wine">> \o extra \o s_hint
             \o <<" crafted for easy sipping and food pairing. ", fin>>
        ELSE IF category = <<"Spirits">>
        THEN <<op, " spirit">> \o extra \o s_hint
             \o <<" with a clean profile and a warming finish. ", fin>>
        ELSE IF category = <<"Confectionery">>
        THEN <<op, " sweet treat">> \o s_hint
             \o <<"-rich, comforting, and perfect with coffee or tea. ", fin>>
        ELSE IF category = <<"Dairy">>
        THEN <<op, " dairy item">> \o s_hint
             \o <<" with a creamy texture and a clean, fresh taste. ", fin>>
        ELSE IF category = <<"Seasoning">>
        THEN <<op, " kitchen staple">> \o s_hint
             \o <<" designed to mix, dissolve, and perform reliably in cooking and baking. ", fin>>
        ELSE IF category = <<"Pickled / Olives">>
        THEN <<op, " brined bite">> \o s_hint
             \o <<" with a firm texture and bold, savory flavor. ", fin>>
        ELSE <<op, " grocery item">> \o s_hint \o <<" made for convenient everyday use. ", fin>>

SAFE_DEFAULT_INGREDIENTS == <<"Ingredients: see manufacturer's labeling on the package.">>
SAFE_DEFAULT_HISTORY ==
    <<"Produced under the ", "{brand}",
      " name; refer to the manufacturer for brand and product background.">>
SAFE_DEFAULT_PRECAUTIONS ==
    <<"Store as directed on the label. Keep in a cool, dry place unless otherwise noted.">>
ALCOHOL_PRECAUTIONS ==
    <<"Alcoholic beverage: intended for adults 21+. Do not drink during pregnancy. Enjoy responsibly; do not drink and drive.">>

RECURSIVE JoinWith(_, _)
\* sep.join(parts)
JoinWith(parts, sep) ==
    IF parts = << >> THEN << >>
    ELSE IF Len(parts) = 1 THEN parts[1]
    ELSE parts[1] \o <<sep>> \o JoinWith(Tail(parts), sep)

generate_precautions(category, allergens, alcohol) ==
    LET p1 == IF allergens # << >>
              THEN << <<"Allergen information: contains ">>
                      \o JoinWith([i \in 1..Len(allergens) |-> <<allergens[i]>>], ", ")
                      \o <<".">> >>
              ELSE << >>
        p2 == IF alcohol THEN <<ALCOHOL_PRECAUTIONS>> ELSE << >>
        p3 == IF category = <<"Dairy">>
              THEN <<"Keep refrigerated; follow storage instructions on the label.">>
              ELSE IF category \in {<<"Confectionery">>, <<"Seasoning">>, <<"Grocery">>,
                                    <<"Pickled / Olives">>}
              THEN <<"Store in a cool, dry place. Refrigerate after opening if indicated.">>
              ELSE IF category = <<"Water">>
              THEN <<"Store in a cool, dark place. Serve chilled.">>
              ELSE SAFE_DEFAULT_PRECAUTIONS
    IN  JoinWith(p1 \o p2 \o <<p3>>, " ")

\* pick_wiki_hint; << >> stands for None
pick_wiki_hint(docs, brand) ==
    IF \E i \in 1..Len(docs) : Contains(LowerChars(docs[i].url), <<"w","i","k","i","p","e","d","i","a">>)
    THEN brand \o <<" is a recognized brand; see public references for background and brand history.">>
    ELSE << >>

\* generate_history: one entry, its year a dash
generate_history(brand, wiki_hint) ==
    IF wiki_hint # << >> THEN << [year |-> <<"-">>, text |-> wiki_hint] >>
    ELSE << [year |-> <<"-">>, text |-> Format(SAFE_DEFAULT_HISTORY, "{brand}" :> brand)] >>

\* build_queries: five queries, cleaned, without duplicates, in order
build_queries(brand, sku_name, category) ==
    LET b    == clean_spaces(brand)
        n    == clean_spaces(sku_name)
        base == b \o <<" ">> \o n
        qs   == << base \o <<" ", "ingredients">>,
                   base \o <<" ", "allergen">>,
                   IF category \in {<<"Beer">>, <<"Wine">>, <<"Spirits">>}
                   THEN base \o <<" ", "ABV">> ELSE base \o <<" ", "product">>,
                   b \o <<" ", "official site">>,
                   b \o <<" ", "history">> >>
        cs   == [i \in 1..Len(qs) |-> clean_spaces(qs[i])]
        New(i) == cs[i] # << >> /\ \A j \in 1..(i - 1) : cs[j] # cs[i]
    IN  [k \in 1..Cardinality({i \in 1..Len(cs) : New(i)}) |->
           cs[CHOOSE i \in 1..Len(cs) :
                 New(i) /\ Cardinality({j \in 1..i : New(j)}) = k]]

MAX_URLS_PER_SKU == 5
MAX_FETCH_CHARS == 40000
\* queries[:3], max_results=6, len(d.text) > 120, the source name cut at 120
QueryLimit == 3
MaxResults == 6
MinTextLen == 120
SourceNameLen == 120

\* what the search engine answers for a query when it answers
Hits(q) ==
    LET Hit(u) == [title |-> << >>, url |-> u, snippet |-> << >>]
        UrlSocial == <<"h","t","t","p","s",":","/","/","f","a","c","e","b","o","o","k",".","c","o","m","/","k","r","i","n","o","s">>
        UrlFtp == <<"f","t","p",":","/","/","f","i","l","e","s",".","k","r","i","n","o","s",".","c","o","m","/","a">>
        kind  == q[Len(q)]
        aqua  == \E i \in 1..Len(q) : q[i] = "Aqua"
        mythos == \E i \in 1..Len(q) : q[i] = "Mythos"
    IN  IF mythos
        THEN IF kind = "ingredients" THEN <<Hit(UrlBeer)>> ELSE << >>
        ELSE IF aqua
        THEN IF kind = "ingredients" THEN <<Hit(UrlAqua), Hit(UrlSocial)>>
             ELSE IF kind = "allergen" THEN <<Hit(UrlAqua)>>
             ELSE << >>
        ELSE IF kind = "ingredients" THEN <<Hit(UrlBrand), Hit(UrlFtp), Hit(UrlSocial), Hit(<< >>)>>
             ELSE IF kind = "allergen" THEN <<Hit(UrlBrand), Hit(UrlWiki)>>
             ELSE <<Hit(UrlShop)>>

\* cache/ before the first run: no search file, no page file, none truncated
EmptyCache == [search |-> << >>, pages |-> << >>, torn |-> {}]

\* no Enricher run has started
EnrichIdle ==
    [pc |-> "idle", runs |-> 0, row |-> 0, qi |-> 0, urls |-> << >>, ui |-> 0, docs |-> << >>,
     out |-> << >>, nd |-> << >>, failed |-> {}]

Prefix(s, n) == SubSeq(s, 1, IF Len(s) < n THEN Len(s) ELSE n)

\* the locals enrich_one computes from a row before it searches (lines 436-449)
RowCtx(row) ==
    LET brand    == title_case_brand(Strip(Str(row.brand)))
        sku_name == normalize_name(Strip(Str(row.sku_name)))
        category == guess_category(Strip(Str(row.department)), sku_name)
    IN  [sku_id |-> Strip(Str(row.sku_id)), brand_raw |-> Strip(Str(row.brand)),
         brand |-> brand, sku_name |-> sku_name, category |-> category,
         size |-> Strip(Str(row.size)), alcohol |-> is_alcohol(category, sku_name),
         queries |-> Prefix(build_queries(brand, sku_name, category), QueryLimit)]

RECURSIVE add_urls(_, _, _)
\* the inner loop over one query's results (lines 454-464)
add_urls(urls, results, max_urls) ==
    IF results = << >> THEN urls
    ELSE LET u == Head(results).url
         IN  IF u = << >> \/ Prefix(u, 4) # <<"h","t","t","p">>
             THEN add_urls(urls, Tail(results), max_urls)
             ELSE IF \E x \in {<<"f","a","c","e","b","o","o","k",".","c","o","m">>, <<"i","n","s","t","a","g","r","a","m",".","c","o","m">>, <<"p","i","n","t","e","r","e","s","t",".","c","o","m">>} : Contains(LowerChars(u), x)
             THEN add_urls(urls, Tail(results), max_urls)
             ELSE LET us == IF \E i \in 1..Len(urls) : urls[i] = u THEN urls
                            ELSE Append(urls, u)
                  IN  IF Len(us) >= max_urls THEN us
                      ELSE add_urls(us, Tail(results), max_urls)

\* the entry enrich_one builds from its locals c and the best documents (lines
\* 477-524), with the opener and the finish random.choice drew
enrich_entry(c, best_docs, op, fin) ==
    LET merged_text == Truncate(JoinWith([i \in 1..Len(best_docs) |-> best_docs[i].text], " "),
                                MAX_FETCH_CHARS)
        found       == extract_ingredients(merged_text)
        allergens   == extract_allergens(merged_text)
        abv         == IF c.alcohol THEN extract_abv(merged_text) ELSE << >>
        ingredients == IF found # << >> THEN found
                       ELSE IF c.category = <<"Water">> THEN <<"Ingredients: natural water.">>
                       ELSE SAFE_DEFAULT_INGREDIENTS
        SrcName(d)  == Truncate(Strip(IF d.title # << >> THEN d.title ELSE <<"Source">>),
                                SourceNameLen)
    IN  [sku |-> c.sku_id, brand |-> c.brand_raw, category |-> c.category, size |-> c.size,
         i18n |-> [en |->
            [title |-> clean_spaces([i \in 1..Len(c.sku_name) |-> TitleTable[c.sku_name[i]]]),
             description |-> generate_description(c.category, c.sku_name, c.size, abv, op, fin),
             ingredients |-> ingredients,
             precautions |-> generate_precautions(c.category, allergens, c.alcohol),
             history |-> generate_history(c.brand, pick_wiki_hint(best_docs, c.brand)),
             sources |-> [i \in 1..Len(best_docs) |->
                            Source(SrcName(best_docs[i]), best_docs[i].url)]]]]

\* enrich_one from the documents it kept on (line 475)
enrich_docs(c, docs, op, fin) ==
    enrich_entry(c, pick_best_docs(docs, c.sku_name, c.brand), op, fin)

\* enrich_one for a row, given the documents its requests brought
enrich_one(row, docs, op, fin) == enrich_docs(RowCtx(row), docs, op, fin)

\* runs of the Enricher the model follows
MaxRuns == 2

\* python enrich_products.py starts: main up to the first row (lines 529-549)
StartRun ==
    /\ enrich.pc \in {"idle", "done", "killed", "raised"}
    /\ enrich.runs < MaxRuns
    /\ enrich' = [EnrichIdle EXCEPT !.pc = "search", !.runs = enrich.runs + 1, !.row = 1,
                                    !.failed = enrich.failed]
    /\ last' = [op |-> "start", key |-> << >>, network |-> FALSE, empty |-> TRUE]
    /\ UNCHANGED <<cache, sheet, template, enriched, content, products, edits, requests>>

\* where enrich_one goes once a query's results are added to urls (lines 465-469)
AfterSearch(e, urls) ==
    IF Len(urls) >= MAX_URLS_PER_SKU \/ e.qi + 1 >= Len(RowCtx(sheet[e.row]).queries)
    THEN [e EXCEPT !.urls = urls, !.qi = e.qi + 1, !.pc = IF urls = << >> THEN "emit" ELSE "fetch"]
    ELSE [e EXCEPT !.urls = urls, !.qi = e.qi + 1]

\* one ddg_search call of enrich_one, and the loop body around it (lines 177-196, 452-466)
SearchStep ==
    /\ enrich.pc = "search"
    /\ LET q == RowCtx(sheet[enrich.row]).queries[enrich.qi + 1]
       IN  IF <<"search", q>> \in cache.torn
           THEN /\ enrich' = [enrich EXCEPT !.pc = "raised"]
                /\ last' = [op |-> "search", key |-> q, network |-> FALSE, empty |-> TRUE]
                /\ UNCHANGED cache
           ELSE IF q \in DOMAIN cache.search
           THEN /\ enrich' = AfterSearch(enrich, add_urls(enrich.urls, cache.search[q], MAX_URLS_PER_SKU))
                /\ last' = [op |-> "search", key |-> q, network |-> FALSE,
                            empty |-> cache.search[q] = << >>]
                /\ UNCHANGED cache
           ELSE \E answered \in BOOLEAN :
                  LET results == IF answered THEN Prefix(Hits(q), MaxResults) ELSE << >>
                      e       == IF answered THEN enrich
                                 ELSE [enrich EXCEPT !.failed = @ \cup {<<"search", q>>}]
                  IN  /\ cache' = [cache EXCEPT !.search = Put(@, q, results)]
                      /\ enrich' = AfterSearch(e, add_urls(enrich.urls, results, MAX_URLS_PER_SKU))
                      /\ last' = [op |-> "search", key |-> q, network |-> TRUE,
                                  empty |-> results = << >>]
    /\ UNCHANGED <<sheet, template, enriched, content, products, edits, requests>>

\* a variant of the fetch loop in which a failed fetch escapes enrich_one
AfterFetch_raises(e, d) ==
    IF d = << >> THEN [e EXCEPT !.pc = "raised"]
    ELSE [e EXCEPT !.docs = Append(e.docs, d), !.ui = e.ui + 1,
                   !.pc = IF e.ui + 1 >= Len(e.urls) THEN "emit" ELSE "fetch"]

\* where enrich_one goes once a URL is fetched: d is << >> for None (lines 470-473)
AfterFetch(e, d) ==
    LET docs == IF d # << >> /\ d.text # << >> /\ CharLen(d.text) > MinTextLen
                THEN Append(e.docs, d) ELSE e.docs
    IN  [e EXCEPT !.docs = docs, !.ui = e.ui + 1,
                  !.pc = IF e.ui + 1 >= Len(e.urls) THEN "emit" ELSE "fetch"]

\* one fetch_and_extract call of enrich_one (lines 198-229, 470-473)
FetchStep ==
    /\ enrich.pc = "fetch"
    /\ LET u == enrich.urls[enrich.ui + 1]
       IN  IF <<"fetch", u>> \in cache.torn
           THEN /\ enrich' = [enrich EXCEPT !.pc = "raised"]
                /\ last' = [op |-> "fetch", key |-> u, network |-> FALSE, empty |-> TRUE]
                /\ UNCHANGED cache
           ELSE IF u \in DOMAIN cache.pages
           THEN /\ enrich' = AfterFetch(enrich, cache.pages[u])
                /\ last' = [op |-> "fetch", key |-> u, network |-> FALSE, empty |-> FALSE]
                /\ UNCHANGED cache
           ELSE \E outcome \in {"exception", "status_400", "ok"} :
                  IF outcome = "ok"
                  THEN LET p   == Page(u)
                           doc == WebDoc(u, clean_spaces(p.title),
                                         Truncate(clean_spaces(p.text), MAX_FETCH_CHARS))
                       IN  /\ cache' = [cache EXCEPT !.pages = Put(@, u, doc)]
                           /\ enrich' = AfterFetch(enrich, doc)
                           /\ last' = [op |-> "fetch", key |-> u, network |-> TRUE,
                                       empty |-> FALSE]
                  ELSE /\ UNCHANGED cache
                       /\ enrich' = AfterFetch([enrich EXCEPT !.failed = @ \cup {<<"fetch", u>>}],
                                               << >>)
                       /\ last' = [op |-> "fetch", key |-> u, network |-> TRUE, empty |-> TRUE]
    /\ UNCHANGED <<sheet, template, enriched, content, products, edits, requests>>

\* the loop body of main once enrich_one has returned item for the row; after the
\* last row, products_enriched.json is written (lines 553-557)
Emitted(e, item) ==
    [e EXCEPT !.out = Put(e.out, RowKey(sheet[e.row]), item), !.nd = Append(e.nd, item),
              !.pc = IF e.row = Len(sheet) THEN "done" ELSE "search",
              !.row = IF e.row = Len(sheet) THEN e.row ELSE e.row + 1,
              !.qi = 0, !.urls = << >>, !.ui = 0, !.docs = << >>]

\* the rest of enrich_one and of the loop body of main for one row (lines 475-524,
\* 553-557)
EmitStep ==
    /\ enrich.pc = "emit"
    \* the phrases random.choice draws, from a part of the two banks
    /\ \E op \in {openers[2], openers[3]}, fin \in {finishes[2]} :
         enrich' = Emitted(enrich, enrich_one(sheet[enrich.row], enrich.docs, op, fin))
    /\ enriched' = IF enrich.row = Len(sheet) THEN enrich'.out ELSE enriched
    /\ last' = [op |-> "emit", key |-> RowKey(sheet[enrich.row]), network |-> FALSE,
                empty |-> FALSE]
    /\ UNCHANGED <<cache, sheet, template, content, products, edits, requests>>

\* the process is killed between two requests
Kill ==
    /\ enrich.pc \in {"search", "fetch", "emit"}
    /\ enrich' = [enrich EXCEPT !.pc = "killed"]
    /\ last' = [op |-> "kill", key |-> << >>, network |-> FALSE, empty |-> TRUE]
    /\ UNCHANGED <<cache, sheet, template, enriched, content, products, edits, requests>>

\* the process is killed inside save_search or save_page, after open(fp, "w") and
\* before json.dump has written the whole document: the file is left truncated
KillInSave ==
    /\ \/ /\ enrich.pc = "search"
          /\ LET q == RowCtx(sheet[enrich.row]).queries[enrich.qi + 1]
             IN  /\ q \notin DOMAIN cache.search
                 /\ <<"search", q>> \notin cache.torn
                 /\ cache' = [cache EXCEPT !.torn = @ \cup {<<"search", q>>}]
                 /\ last' = [op |-> "kill", key |-> q, network |-> TRUE, empty |-> TRUE]
       \/ /\ enrich.pc = "fetch"
          /\ LET u == enrich.urls[enrich.ui + 1]
             IN  /\ u \notin DOMAIN cache.pages
                 /\ <<"fetch", u>> \notin cache.torn
                 /\ cache' = [cache EXCEPT !.torn = @ \cup {<<"fetch", u>>}]
                 /\ last' = [op |-> "kill", key |-> u, network |-> TRUE, empty |-> TRUE]
    /\ enrich' = [enrich EXCEPT !.pc = "killed"]
    /\ UNCHANGED <<sheet, template, enriched, content, products, edits, requests>>

\* the sheets the Enricher is run on
EnrichSheets == { <<RowOlives>>, <<RowSpark>>, <<RowBranded>>, <<RowSpark, RowSparkCan>> }

InitEnrich ==
    /\ sheet \in EnrichSheets
    /\ template = TemplateBare
    /\ enriched = << >>
    /\ content = << >>
    /\ products = << >>
    /\ edits = 0
    /\ requests = NoRequests
    /\ cache = EmptyCache
    /\ enrich = EnrichIdle
    /\ last = [op |-> "init", written |-> {}, count |-> 0]

\* runs of the Enricher against a network that may fail any request
NextEnrich == StartRun \/ SearchStep \/ FetchStep \/ EmitStep
SpecEnrich == InitEnrich /\ [][NextEnrich]_vars

\* names and departments as the sheet may hold them, for the classifier: each rule's
\* keyword, keywords of two rules at once, a keyword inside a longer word, none
ClassifyInputs ==
    { << <<"Watermelon", " ", "Juice">>, <<"Grocery">> >>,
      << <<"Lager", " ", "Beer">>, <<"Water">> >>,
      << <<"Lager", " ", "Beer">>, <<"Grocery">> >>,
      << <<"Red", " ", "Wine">>, <<"Spirits">> >>,
      << <<"Vodka">>, <<"Grocery">> >>,
      << <<"Crumbs">>, <<"Grocery">> >>,
      << <<"Juice">>, <<"Dairy">> >>,
      << <<"Cola">>, <<"Grocery">> >>,
      << <<"Falcon", " ", "Soda">>, <<"Grocery">> >>,
      << <<"Cheese">>, <<"Grocery">> >>,
      << <<"Chocolate">>, <<"Dairy">> >>,
      << <<"Olives">>, <<"Spices">> >>,
      << <<"Spice", " ", "Mix">>, <<"Grocery">> >>,
      << <<"Bread">>, <<"Grocery">> >>,
      << <<"Bread">>, <<"Confectionery">> >>,
      << <<"Bread">>, <<"Spices">> >>,
      << <<"Bread">>, <<"Spirits">> >> }

\* one-row sheets over ClassifyInputs
ClassifySheets ==
    { << Row(<<"M","1">>, x[1], <<"Mythos">>, <<"Greece">>, x[2], <<"330ml">>, << >>) >> :
        x \in ClassifyInputs }

InitClassify ==
    /\ sheet \in ClassifySheets
    /\ template = TemplateBare
    /\ enriched = << >>
    /\ content = << >>
    /\ products = << >>
    /\ edits = 0
    /\ requests = NoRequests
    /\ cache = EmptyCache
    /\ enrich = EnrichIdle
    /\ last = [op |-> "init", written |-> {}, count |-> 0]

\* runs of the Enricher over one row of each kind of name and department
SpecClassify == InitClassify /\ [][NextEnrich]_vars

\* runs of the Enricher that may be killed and started again
NextRestart == StartRun \/ SearchStep \/ FetchStep \/ EmitStep \/ Kill \/ KillInSave
SpecRestart == InitEnrich /\ [][NextRestart]_vars

-----------------------------------------------------------------------------

\* content/ before the first run: empty, or holding hand-written files: a record
\* with an en block only, and a draft whose sku is blank
LegacyRecord ==
    [sku |-> <<"L","1">>, name |-> <<"Spring", " ", "Water">>, brand |-> <<"Aqua">>,
     country_of_origin |-> << >>, category |-> <<"Water">>, size |-> <<"1L">>,
     tags |-> << <<"water">> >>,
     i18n |-> ("en" :> [title |-> <<"Sparkling", " ", "Water">>,
                        description |-> <<"A ", "Still", " water.">>,
                        history |-> << [year |-> <<"1990">>, text |-> << >>],
                                       [year |-> <<"2000">>, text |-> <<"Bottled in ", "Italy", ".">>] >>])]

DraftRecord ==
    [sku |-> <<" ">>, name |-> <<"Product">>, brand |-> << >>, category |-> << >>,
     i18n |-> ("en" :> [title |-> <<"Product">>])]

InitialStores ==
    { << >>, (<<"L","1">> :> LegacyRecord) @@ (<<"d","r","a","f","t">> :> DraftRecord) }

Init ==
    /\ sheet \in Sheets
    /\ template \in Templates
    /\ enriched \in EnrichedStores(sheet)
    /\ content \in InitialStores
    /\ products = << >>
    /\ edits = 0
    /\ requests = NoRequests
    /\ cache = EmptyCache
    /\ enrich = EnrichIdle
    /\ last = [op |-> "init", written |-> {}, count |-> 0]

\* the batch stages that rewrite the content store
Next ==
    \/ Generate
    \/ Merge
    \/ PostQC
    \/ PremiumPass

Spec == Init /\ [][Next]_vars

\* the Page Renderer over generated and padded records
InitRender == Init /\ enriched = << >>

NextRender ==
    \/ Generate
    \/ PremiumPass
    \/ Render
    \/ \E sku \in RequestSkus : rebuild_html(sku)

SpecRender == InitRender /\ [][NextRender]_vars

\* content/ holding a hand-written file that has a sku and no i18n mapping, next to
\* the legacy files
BareRecord ==
    [sku |-> <<"B","1">>, name |-> <<"Olives">>, brand |-> <<"KRINOS">>,
     category |-> <<"Grocery">>, size |-> <<"500g">>]

InitBare ==
    /\ sheet \in { <<RowOlives>>, <<RowNoSku, RowFeta>> }
    /\ template \in Templates
    /\ enriched = << >>
    /\ content \in { <<"B","1">> :> BareRecord,
                     (<<"B","1">> :> BareRecord) @@ (<<"L","1">> :> LegacyRecord) }
    /\ products = << >>
    /\ edits = 0
    /\ requests = NoRequests
    /\ cache = EmptyCache
    /\ enrich = EnrichIdle
    /\ last = [op |-> "init", written |-> {}, count |-> 0]

\* the Page Renderer over a store with such a file
SpecBare == InitBare /\ [][NextRender]_vars

\* the pipeline stages and the Edit Service over one content directory
NextRegen ==
    \/ Generate
    \/ Merge
    \/ PostQC
    \/ PremiumPass
    \/ \E sku \in RequestSkus, data \in EditBodies : save_product(sku, data)

\* an empty content directory, to be filled by the first generator run
InitRegen ==
    /\ Init
    /\ sheet \in { <<RowSpark>>, <<RowNonCarb>> }
    /\ content = << >>

SpecRegen == InitRegen /\ [][NextRegen]_vars

\* the Edit Service over generated records
InitEdit == Init /\ enriched = << >>

NextEdit ==
    \/ Generate
    \/ \E sku \in RequestSkus, data \in EditBodies : save_product(sku, data)
    \/ \E sku \in RequestSkus : get_product(sku)
    \/ list_skus

SpecEdit == InitEdit /\ [][NextEdit]_vars

\* the Edit Service serving two update requests at once over a content
\* directory that holds hand-written records or the records of a generator run
InitRace ==
    /\ sheet \in { <<RowSpark>>, <<RowOlives, RowSpark>> }
    /\ template \in Templates
    /\ enriched = << >>
    /\ content \in { (<<"L","1">> :> LegacyRecord) @@ (<<"d","r","a","f","t">> :> DraftRecord),
                     generate_loop(sheet, template,
                                   [store |-> << >>, written |-> {}, created |-> 0]).store }
    /\ products = << >>
    /\ edits = 0
    /\ requests = NoRequests
    /\ cache = EmptyCache
    /\ enrich = EnrichIdle
    /\ last = [op |-> "init", written |-> {}, count |-> 0]

NextRace ==
    \/ \E r \in Requests, sku \in RequestSkus, data \in EditBodies : save_begin(r, sku, data)
    \/ \E r \in Requests : save_read(r)
    \/ \E r \in Requests : save_write(r)

SpecRace == InitRace /\ [][NextRace]_vars

\* the Content Generator over sheets of assorted SKU IDs
InitNames ==
    /\ sheet \in SkuSheets
    /\ template = TemplateBare
    /\ enriched = << >>
    /\ content = << >>
    /\ products = << >>
    /\ edits = 0
    /\ requests = NoRequests
    /\ cache = EmptyCache
    /\ enrich = EnrichIdle
    /\ last = [op |-> "init", written |-> {}, count |-> 0]

NextNames == Generate

SpecNames == InitNames /\ [][NextNames]_vars

-----------------------------------------------------------------------------
(* Properties *)

\* the en block of a stored record ({} when the record has none)
EnOf(rec) == Get(Get(rec, "i18n", << >>), "en", << >>)

\* the enriched en block the Merger reads for a stored SKU ({} when it has none)
EnrichedEn(s) ==
    IF s \in DOMAIN enriched THEN Get(Get(enriched[s], "i18n", << >>), "en", << >>) ELSE << >>

MergeFieldSet == {"description", "ingredients", "precautions", "history", "sources"}

\* field f of block b is absent or empty
Empty(b, f) == f \notin DOMAIN b \/ b[f] = << >>

\* field f is the same in blocks a and b: absent in both, or present with one value
SameField(a, b, f) ==
    /\ (f \in DOMAIN a) <=> (f \in DOMAIN b)
    /\ f \in DOMAIN a => a[f] = b[f]

\* C1: a merge run never clears a field: for every record and mergeable field, an
\* absent or empty enriched value leaves the record's value as it was, and no
\* non-empty value is replaced by an empty one.
C1_MergeNeverClears ==
    [][ last'.op = "merge" =>
          \A s \in DOMAIN content : \A f \in MergeFieldSet :
              /\ Empty(EnrichedEn(s), f) => SameField(EnOf(content[s]), EnOf(content'[s]), f)
              /\ ~Empty(EnOf(content[s]), f) => ~Empty(EnOf(content'[s]), f) ]_vars

\* C1 witness: a merge rewrote a record, and a field whose enriched value is empty
\* still holds its non-empty value.
C1_Witness ==
    /\ last.op = "merge"
    /\ \E s \in last.written : \E f \in MergeFieldSet :
          /\ f \in DOMAIN EnrichedEn(s) /\ EnrichedEn(s)[f] = << >>
          /\ ~Empty(EnOf(content[s]), f)

\* C2: a merge run rewrites a file exactly when its SKU is in the enriched store and
\* some mergeable field was overwritten; files of SKUs absent from the store are
\* untouched and counted as skipped; a merge run right after a merge run rewrites
\* nothing.
C2_MergeWritesIffChanged ==
    [][ last'.op = "merge" =>
          /\ \A s \in DOMAIN content :
                (s \in last'.written) <=>
                    /\ s \in DOMAIN enriched
                    /\ \E f \in MergeFieldSet :
                          ~SameField(EnOf(content[s]), EnOf(content'[s]), f)
          /\ \A s \in DOMAIN content : s \notin last'.written => content'[s] = content[s]
          /\ last'.skipped = Cardinality(DOMAIN content \ DOMAIN enriched)
          /\ last'.count = Cardinality(last'.written)
          /\ last.op = "merge" => last'.written = {} ]_vars

\* C2 witness: one merge run rewrote a file and skipped another.
C2_Witness ==
    /\ last.op = "merge"
    /\ last.written # {}
    /\ last.skipped > 0
    /\ \E s \in DOMAIN content : s \notin DOMAIN enriched

\* C3: Premium Pass is idempotent: on the store a Premium Pass run left, a second run
\* changes no description, ingredients or history and rewrites no file.
C3_PremiumIdempotent ==
    last.op = "premium" =>
        \A s \in DOMAIN content :
            /\ ~premium_record(content[s]).changed
            /\ premium_record(content[s]).data = content[s]

\* C4: Post-QC is idempotent on content: on the store a Post-QC run left, a second
\* run yields the same en sources and en description.
C4_PostQCIdempotent ==
    last.op = "post_qc" =>
        \A s \in DOMAIN content :
            LET again == EnOf(post_qc_record(content[s]).data)
            IN  /\ SameField(EnOf(content[s]), again, "sources")
                /\ SameField(EnOf(content[s]), again, "description")

\* C4 witness: Post-QC rewrote a Water record whose title carries a still and a
\* sparkling marker, whose sources were all filtered out and whose description it
\* corrected.
C4_Witness ==
    /\ last.op = "post_qc"
    /\ \E s \in last.written :
          LET en == EnOf(content[s])
          IN  /\ Get(en, "sources", << >>) = <<PlaceholderSource>>
              /\ AnyMarker(Upper(en.title), still_markers)
              /\ AnyMarker(Upper(en.title), sparkling_markers)
              /\ \E i \in 1..Len(en.description) : en.description[i] = "sparkling"

\* C5: Post-QC writes a file back only when the record changed: a record whose en
\* sources and en description come out of Post-QC as they went in is neither
\* rewritten nor counted as cleaned.
C5_PostQCWritesOnlyOnChange ==
    \A s \in DOMAIN content :
        LET r == post_qc_record(content[s])
        IN  ( /\ SameField(EnOf(content[s]), EnOf(r.data), "sources")
              /\ SameField(EnOf(content[s]), EnOf(r.data), "description") )
            => (~r.changed /\ ~r.fixed_sources)

\* C6: structural parity: in every record a Content Generator run wrote, each of the
\* 7 language blocks has exactly the key set of the en block.
C6_StructuralParity ==
    last.op = "generate" =>
        \A s \in last.written : \A lang \in LangSet :
            /\ lang \in DOMAIN content[s].i18n
            /\ DOMAIN content[s].i18n[lang] = DOMAIN content[s].i18n["en"]

\* C7: in every record a Content Generator run wrote, the Localizer left exactly the
\* blocks ru, ua, de, es, it, hr, hu beside en, each titled as the en block, and the
\* en block is the one the Content Generator built.
C7_LocalizerBlocks ==
    last.op = "generate" =>
        \A s \in last.written :
            LET d == content[s]
            IN  /\ DOMAIN d.i18n = {"en", "ru", "ua", "de", "es", "it", "hr", "hu"}
                /\ \A lang \in DOMAIN d.i18n : d.i18n[lang].title = d.i18n["en"].title
                /\ d.i18n["en"] = generate_en_content(d, Get(template.i18n, "en", << >>))

\* C7 witness: a generated record whose name is empty, so that the en title is the
\* brand, with all language blocks carrying that title.
C7_Witness ==
    /\ last.op = "generate"
    /\ \E s \in last.written :
          /\ content[s].name = << >>
          /\ content[s].i18n["en"].title = content[s].brand
          /\ content[s].i18n["hu"].title = content[s].brand
          /\ content[s].brand # << >>

\* the row whose record a generator run left in file s (the last such row)
RowOf(s) ==
    LET Writes(i) == Strip(Str(sheet[i].sku_id)) # << >>
                     /\ safe_filename(Strip(Str(sheet[i].sku_id))) = s
    IN  sheet[CHOOSE i \in 1..Len(sheet) :
                 Writes(i) /\ \A j \in (i + 1)..Len(sheet) : ~Writes(j)]

\* name, brand and country of the row are non-empty once stripped
RowFilled(row) ==
    /\ Strip(Str(row.sku_name)) # << >>
    /\ Strip(Str(row.brand)) # << >>
    /\ Strip(Str(row.country)) # << >>

\* C8 as stated: for a row with non-empty SKU name, brand and country the generated en
\* block has the SKU name as title, a description containing the brand and the
\* country, and 3 history entries.
C8_Original ==
    last.op = "generate" =>
        \A s \in last.written :
            LET row == RowOf(s)
                en  == content[s].i18n["en"]
            IN  RowFilled(row) =>
                  /\ en.title = Strip(Str(row.sku_name))
                  /\ Contains(en.description, Strip(Str(row.brand)))
                  /\ Contains(en.description, Strip(Str(row.country)))
                  /\ Len(en.history) = 3

\* C8 amended: for a row whose SKU name, brand and country are non-empty once
\* stripped, the en title is the stripped SKU name, the description contains the
\* title and the country, and the history has 3 entries, each containing the brand.
C8_GeneratedEnBlock ==
    last.op = "generate" =>
        \A s \in last.written :
            LET row == RowOf(s)
                en  == content[s].i18n["en"]
            IN  RowFilled(row) =>
                  /\ en.title = Strip(Str(row.sku_name))
                  /\ Contains(en.description, en.title)
                  /\ Contains(en.description, Strip(Str(row.country)))
                  /\ Len(en.history) = 3
                  /\ \A i \in 1..Len(en.history) :
                        Contains(en.history[i].text, Strip(Str(row.brand)))

\* C8 witness: a generated record of a filled row whose description holds the title
\* and the country but not the brand.
C8_Witness ==
    /\ last.op = "generate"
    /\ \E s \in last.written :
          LET row == RowOf(s)
              en  == content[s].i18n["en"]
          IN  /\ RowFilled(row)
              /\ Contains(en.description, en.title)
              /\ Contains(en.description, Strip(Str(row.country)))
              /\ ~Contains(en.description, Strip(Str(row.brand)))

\* the 8 page names: index.html and <lang>.html
PageNames ==
    { <<"i","n","d","e","x",".","h","t","m","l">>, <<"r","u",".","h","t","m","l">>, <<"u","a",".","h","t","m","l">>, <<"d","e",".","h","t","m","l">>,
      <<"e","s",".","h","t","m","l">>, <<"i","t",".","h","t","m","l">>, <<"h","r",".","h","t","m","l">>, <<"h","u",".","h","t","m","l">> }

\* C9: a render run writes, for every stored record with a non-empty sku, exactly the
\* 8 files index.html, ru.html, ua.html, de.html, es.html, it.html, hr.html, hu.html
\* into products/<sku>/, whether or not the record has the language's block, and
\* nothing for a record whose sku is empty.
C9_RenderWritesEightPages ==
    last.op \in {"render", "rebuild"} =>
        /\ \A s \in DOMAIN content :
              LET sku == Strip(Get(content[s], "sku", << >>))
              IN  sku # << >> =>
                    /\ {f \in last.written : f[1] = sku} = {<<sku, n>> : n \in PageNames}
                    /\ {f \in DOMAIN products : f[1] = sku} = {<<sku, n>> : n \in PageNames}
        /\ \A f \in last.written :
              /\ f[1] # << >>
              /\ \E s \in DOMAIN content : Strip(Get(content[s], "sku", << >>)) = f[1]
        /\ Cardinality(last.written)
             = 8 * Cardinality({Strip(Get(content[s], "sku", << >>)) : s \in DOMAIN content}
                               \ {<< >>})

\* C9 witness: a render run over a store holding a record without an ru block, whose
\* ru.html exists, and a record with an empty sku.
C9_Witness ==
    /\ last.op = "render"
    /\ \E s \in DOMAIN content :
          /\ "ru" \notin DOMAIN content[s].i18n
          /\ <<Strip(content[s].sku), <<"r","u",".","h","t","m","l">>>> \in DOMAIN products
    /\ \E s \in DOMAIN content : Strip(content[s].sku) = << >>

\* C10: an update naming a language block the record lacks creates the block; when
\* the body carries only lang and description the block is exactly description as
\* given, ingredients and precautions empty strings, history the empty list.
C10_EditCreatesBlock ==
    [][ ( /\ last'.op = "save" /\ last'.status = 200 /\ edits' = edits + 1
          /\ last'.data.lang \notin DOMAIN content[last'.sku].i18n )
        => LET block == content'[last'.sku].i18n
           IN  /\ last'.data.lang \in DOMAIN block
               /\ DOMAIN last'.data = {"lang", "description"} =>
                     block[last'.data.lang] =
                         [description |-> last'.data.description, ingredients |-> << >>,
                          precautions |-> << >>, history |-> << >>] ]_vars

\* C10 witness: an update with only lang and description created the fr block.
C10_Witness ==
    /\ last.op = "save" /\ last.status = 200
    /\ DOMAIN last.data = {"lang", "description"}
    /\ last.data.lang = "fr"
    /\ content[last.sku].i18n["fr"] =
          [description |-> last.data.description, ingredients |-> << >>,
           precautions |-> << >>, history |-> << >>]

\* the fields an update request may carry
EditFields == {"description", "ingredients", "precautions", "history"}

\* C11: an update merges into an existing language block: every editable field the
\* request body omits has, after the update, the value it had before.
C11_EditKeepsOmitted ==
    [][ ( /\ last'.op = "save" /\ last'.status = 200 /\ edits' = edits + 1
          /\ last'.data.lang \in DOMAIN content[last'.sku].i18n )
        => \A f \in EditFields \ DOMAIN last'.data :
              SameField(content[last'.sku].i18n[last'.data.lang],
                        content'[last'.sku].i18n[last'.data.lang], f) ]_vars

\* C12: a fetch or an update for a SKU without a content file answers 404 with an
\* error payload and leaves the content store as it was.
C12_NotFound ==
    [][ ( /\ last'.op \in {"get", "save"}
          /\ last' # last
          /\ last'.sku \notin DOMAIN content )
        => /\ last'.status = 404
           /\ "error" \in DOMAIN last'.body
           /\ last'.written = {}
           /\ content' = content ]_vars

\* C12 witness: an update for an unknown SKU was answered 404 while the store holds
\* files, none of them under that SKU.
C12_Witness ==
    /\ last.op = "save" /\ last.status = 404
    /\ last.sku \notin DOMAIN content
    /\ content # << >>

\* the prose string holds the word w, in any letter case
HasWord(desc, w) ==
    \E i \in 1..Len(desc) : desc[i] \in DOMAIN LowerTable /\ LowerTable[desc[i]] = w

\* the title, upper-cased, contains SPARKLING
TitleSparkling(title) == Contains(Chars(Upper(title)), <<"S","P","A","R","K","L","I","N","G">>)

\* C13: for a title containing SPARKLING and a description holding the word still,
\* fix_water_description returns a description that holds the word sparkling and
\* not the word still, whether or not the title also has a still marker; a Post-QC
\* run leaves such a description in every Water record.
C13_WaterCorrection ==
    [][ \A s \in DOMAIN content :
          LET en    == EnOf(content[s])
              title == Get(en, "title", << >>)
              desc  == Get(en, "description", << >>)
              fixed == fix_water_description(desc, title)
          IN  (TitleSparkling(title) /\ HasWord(desc, "still")) =>
                 /\ HasWord(fixed, "sparkling") /\ ~HasWord(fixed, "still")
                 /\ Len(fixed) = Len(desc)
                 /\ (last'.op = "post_qc" /\ Get(content[s], "category", << >>) = <<"Water">>)
                       => EnOf(content'[s]).description = fixed ]_vars

\* C13 witness: Post-QC corrected a Water record titled with SPARKLING and the still
\* marker BLUE: the description holds sparkling and not still.
C13_Witness ==
    /\ last.op = "post_qc" /\ last.fixed_water > 0
    /\ \E s \in last.written :
          LET en == EnOf(content[s])
          IN  /\ TitleSparkling(en.title)
              /\ Contains(Chars(Upper(en.title)), <<"B","L","U","E">>)
              /\ HasWord(en.description, "sparkling")
              /\ ~HasWord(en.description, "still")

\* the stripped SKU IDs of the sheet's rows that are not skipped
SheetIds == {RowKey(sheet[i]) : i \in 1..Len(sheet)} \ {<< >>}

\* the SKU ID holds ".0" somewhere before its last two characters
Dot0Inside(id) == \E i \in 1..(Len(id) - 2) : id[i] = "." /\ id[i + 1] = "0"

\* the SKU ID has no forbidden character and no whitespace
PlainId(id) == \A i \in 1..Len(id) : id[i] \notin ForbiddenChars \cup WS

\* C14: safe_filename strips ".0" only as the trailing suffix: 123.0 gives 123, and
\* a plain SKU ID holding ".0" before its end keeps every character before its last
\* two.
C14_TrailingDot0Only ==
    last.op = "generate" =>
        \A id \in SheetIds :
            /\ safe_filename(id) \in DOMAIN content
            /\ id = <<"1","2","3",".","0">> => safe_filename(id) = <<"1","2","3">>
            /\ (Dot0Inside(id) /\ PlainId(id)) =>
                  /\ Len(safe_filename(id)) >= Len(id) - 2
                  /\ SubSeq(safe_filename(id), 1, Len(id) - 2) = SubSeq(id, 1, Len(id) - 2)

\* C15: sanitization is collision-free: rows with distinct SKU IDs get distinct file
\* names, so a generator run leaves one file per distinct SKU ID, each holding the
\* record of a row with that file's SKU ID.
C15_CollisionFree ==
    last.op = "generate" =>
        /\ \A a, b \in SheetIds : a # b => safe_filename(a) # safe_filename(b)
        /\ Cardinality(last.written) = Cardinality(SheetIds)
        /\ \A id \in SheetIds : content[safe_filename(id)].name = id

\* the URL's domain matches the denylist
Denylisted(url) ==
    \E i \in 1..Len(bad_domains) : Contains(LowerChars(Netloc(url)), bad_domains[i])

\* the URL's domain contains the brand's prefix, or a known retailer
BrandOrRetailer(url, brand) ==
    LET domain_key == KeepAlnum(LowerChars(Netloc(url)))
        brand_key  == KeepAlnum(Chars(Lower(brand)))
        prefix     == SubSeq(brand_key, 1, IF Len(brand_key) < 6 THEN Len(brand_key) ELSE 6)
    IN  \/ brand_key # << >> /\ Contains(domain_key, prefix)
        \/ \E i \in 1..Len(retailers) : Contains(domain_key, retailers[i])

\* the sources list the stated filter leaves: a source goes exactly when its domain
\* is denylisted and neither a brand nor a retailer domain; an emptied list becomes
\* the placeholder
StatedFilter(sources, brand) ==
    LET Keep(s) == ~(Denylisted(Get(s, "url", << >>))
                     /\ ~BrandOrRetailer(Get(s, "url", << >>), brand))
        clean   == SelectSeq(sources, Keep)
    IN  IF sources # << >> /\ clean = << >> THEN <<PlaceholderSource>> ELSE clean

\* C16: a Post-QC run drops a source exactly when its domain is denylisted and neither
\* a brand nor a retailer domain, keeps every other source, and puts the placeholder
\* only where the filter emptied a non-empty list.
C16_SourceFilter ==
    [][ last'.op = "post_qc" =>
          \A s \in DOMAIN content :
              "sources" \in DOMAIN EnOf(content[s]) =>
                  EnOf(content'[s]).sources =
                      StatedFilter(EnOf(content[s]).sources, Get(content[s], "brand", << >>)) ]_vars

\* the stage names of the regenerated history
StageYears == << <<"Origins">>, <<"Production">>, <<"Today">> >>

\* C17: after a Premium Pass run every record's en history has at least 3 entries: a
\* history of 0, 1 or 2 entries has become the 3-stage Origins / Production / Today
\* template, and a history of 3 or more entries is as it was.
C17_HistoryAtLeastThree ==
    [][ last'.op = "premium" =>
          \A s \in DOMAIN content :
              LET old == Get(EnOf(content[s]), "history", << >>)
                  new == Get(EnOf(content'[s]), "history", << >>)
              IN  /\ Len(new) >= 3
                  /\ Len(old) >= 3 => new = old
                  /\ Len(old) < 3 => [i \in 1..Len(new) |-> new[i].year] = StageYears ]_vars

\* C18: a failed request is cached as "no result": once a search query or a page
\* URL has failed (an exception, or a status of 400 and above for a page), every
\* later request for the same query or URL, in the same run or a later one, makes
\* no network call and yields the empty result.
C18_FailedRequestCached ==
    [][(SearchStep \/ FetchStep) =>
         (<<last'.op, last'.key>> \in enrich.failed => (~last'.network /\ last'.empty))]_vars

\* the ingredients enrich_one falls back on for a row
DefaultIngredients(row) ==
    IF RowCtx(row).category = <<"Water">> THEN <<"Ingredients: natural water.">>
    ELSE SAFE_DEFAULT_INGREDIENTS

C19_RestartCompletes ==
    (enrich.runs >= 2 /\ enrich.pc \in {"done", "raised"}) =>
        /\ enrich.pc = "done"
        /\ Len(enrich.nd) = Len(sheet)
        /\ \A i \in 1..Len(sheet) : RowKey(sheet[i]) \in DOMAIN enriched

\* C22: for a Water record whose title holds the still marker NON-CARBONATED and
\* whose description holds the word sparkling, Post-QC substitutes in the still
\* direction: the description it leaves holds the word still and no longer the word
\* sparkling.
C22_StillDirection ==
    [][ \A s \in DOMAIN content :
          LET en    == EnOf(content[s])
              title == Get(en, "title", << >>)
              desc  == Get(en, "description", << >>)
          IN  ( /\ last'.op = "post_qc"
                /\ Get(content[s], "category", << >>) = <<"Water">>
                /\ Contains(Chars(Upper(title)), still_markers[1])
                /\ HasWord(desc, "sparkling") ) =>
                 /\ HasWord(EnOf(content'[s]).description, "still")
                 /\ ~HasWord(EnOf(content'[s]).description, "sparkling") ]_vars

\* the rules of the classifier in their order: category, keywords looked for in the
\* name, keywords looked for in the department
CategoryRules ==
    << <<"Water", {<<"W","A","T","E","R">>}, {<<"W","A","T","E","R">>}>>,
       <<"Beer", {<<"B","E","E","R">>}, {<<"B","E","E","R">>}>>,
       <<"Wine", {<<"W","I","N","E">>}, {<<"W","I","N","E">>}>>,
       <<"Spirits", {<<"V","O","D","K","A">>, <<"W","H","I","S">>, <<"R","U","M">>, <<"T","E","Q","U","I","L","A">>}, {<<"S","P","I","R","I","T","S">>}>>,
       <<"Juice", {<<"J","U","I","C","E">>}, {}>>,
       <<"Soft drink", {<<"S","O","D","A">>, <<"S","O","F","T"," ","D","R","I","N","K">>, <<"C","O","L","A">>}, {}>>,
       <<"Dairy", {<<"C","H","E","E","S","E">>}, {<<"D","A","I","R","Y">>}>>,
       <<"Confectionery", {<<"C","H","O","C">>, <<"C","A","N","D","Y">>}, {<<"C","O","N","F","E","C","T","I","O","N">>}>>,
       <<"Pickled / Olives", {<<"P","I","C","K","L","E","D">>, <<"O","L","I","V","E">>}, {}>>,
       <<"Seasoning", {<<"S","P","I","C","E">>, <<"S","E","A","S","O","N">>}, {<<"S","P","I","C","E","S">>}>> >>

\* rule r matches the name or the department
RuleMatches(r, dept, name) ==
    \/ \E k \in CategoryRules[r][2] : InUpper(k, name)
    \/ \E k \in CategoryRules[r][3] : InUpper(k, dept)

\* the category of the first rule that matches, Grocery when none does
FirstRule(dept, name) ==
    LET m == {r \in 1..Len(CategoryRules) : RuleMatches(r, dept, name)}
    IN  IF m = {} THEN <<"Grocery">>
        ELSE <<CategoryRules[CHOOSE r \in m : \A x \in m : r <= x][1]>>

\* the department and the name enrich_one classifies row i of the sheet by
DeptOf(i) == Strip(Str(sheet[i].department))
NameOf(i) == normalize_name(Strip(Str(sheet[i].sku_name)))

\* C24: guess_category is a total first-match classifier: the category of an entry
\* is that of the first rule, in the order Water, Beer, Wine, Spirits, Juice, Soft
\* drink, Dairy, Confectionery, Pickled / Olives, Seasoning, whose keyword occurs in
\* the upper-cased name or department, and Grocery when no rule matches; a SKU that
\* matches the Water rule and a later rule is classified Water.
C24_FirstMatch ==
    \A i \in 1..Len(enrich.nd) :
        /\ enrich.nd[i].category = FirstRule(DeptOf(i), NameOf(i))
        /\ enrich.nd[i].category = guess_category(DeptOf(i), NameOf(i))
        /\ RuleMatches(1, DeptOf(i), NameOf(i)) => enrich.nd[i].category = <<"Water">>

\* a row whose name matches the Water rule and the Juice rule was emitted as Water
C24_Witness ==
    /\ Len(enrich.nd) = 1
    /\ RuleMatches(1, DeptOf(1), NameOf(1))
    /\ RuleMatches(5, DeptOf(1), NameOf(1))
    /\ enrich.nd[1].category = <<"Water">>

\* C23: the enriched precautions hold the alcohol-safety boilerplate if and only if
\* the category of the SKU is one of Beer, Wine, Spirits; a SKU of any other
\* category never receives it, whatever its name.
C23_AlcoholByCategory ==
    \A i \in 1..Len(enrich.nd) :
        Contains(enrich.nd[i].i18n.en.precautions, ALCOHOL_PRECAUTIONS)
            <=> enrich.nd[i].category \in {<<"Beer">>, <<"Wine">>, <<"Spirits">>}

\* C25: the Page Renderer has no error path: for every stored record with a
\* non-empty sku, also one with no i18n mapping, a missing language block or a
\* missing field, a render run completes and writes all of the record's pages, each
\* missing value rendered as the empty string.
C25_RenderNeverRaises ==
    last.op \in {"render", "rebuild"} =>
        /\ last.status = "ok"
        /\ \A s \in DOMAIN content :
              LET sku == page_sku(content[s])
              IN  sku # << >> =>
                    \A n \in PageNames :
                        /\ <<sku, n>> \in last.written
                        /\ <<sku, n>> \in DOMAIN products
                        /\ "description" \notin DOMAIN EnOf(content[s])
                              => products[<<sku, LANG_MAP[1][2]>>].DESCRIPTION = << >>

\* the en history of a record, as PremiumPass reads it
HistoryOf(rec) == Get(EnOf(rec), "history", << >>)

\* C26: whenever PremiumPass changes an en history, every entry present
\* before the pass is still present after it and the number of entries
\* does not decrease
C26_HistoryOnlyPadded ==
    [][ last'.op = "premium" =>
          \A s \in DOMAIN content :
              HistoryOf(content'[s]) # HistoryOf(content[s]) =>
                  /\ Len(HistoryOf(content'[s])) >= Len(HistoryOf(content[s]))
                  /\ \A i \in 1..Len(HistoryOf(content[s])) :
                         \E j \in 1..Len(HistoryOf(content'[s])) :
                             HistoryOf(content'[s])[j] = HistoryOf(content[s])[i] ]_vars

\* the rows of the sheet that have a content file and an enriched entry
PairedRows ==
    { i \in 1..Len(sheet) :
          /\ RowKey(sheet[i]) # << >>
          /\ RowKey(sheet[i]) \in DOMAIN enriched
          /\ safe_filename(RowKey(sheet[i])) \in DOMAIN content }

\* C28: after a Merger run, every row that has both a content file and an
\* enriched entry is paired: the Enricher's key equals the filename stem the
\* Merger looks up, and the Merger found the file's entry
C28_RowsPaired ==
    last.op = "merge" =>
        \A i \in PairedRows :
            /\ RowKey(sheet[i]) = safe_filename(RowKey(sheet[i]))
            /\ safe_filename(RowKey(sheet[i])) \in DOMAIN enriched

\* the part of a record outside the five mergeable en fields: the top-level
\* attributes, the non-en language blocks and the other fields of the en block
FrameOf(rec) ==
    LET i18n  == Get(rec, "i18n", << >>)
        en    == Get(i18n, "en", << >>)
        merged == {FIELDS_TO_MERGE[i] : i \in 1..Len(FIELDS_TO_MERGE)}
    IN  [top   |-> [k \in DOMAIN rec \ {"i18n"} |-> rec[k]],
         langs |-> [l \in DOMAIN i18n \ {"en"} |-> i18n[l]],
         en    |-> [k \in DOMAIN en \ merged |-> en[k]]]

\* C27: a Merger, Post-QC or Premium Pass run leaves every record's top-level
\* attributes, non-en language blocks and en title, sections and meta as they
\* were, and removes no record
C27_StagesFrame ==
    [][ last'.op \in {"merge", "post_qc", "premium"} =>
          /\ DOMAIN content' = DOMAIN content
          /\ \A s \in DOMAIN content : FrameOf(content'[s]) = FrameOf(content[s]) ]_vars

\* a stage has rewritten a generated record that has a title, sections and
\* translated blocks
C27_Witness ==
    /\ last.op \in {"merge", "post_qc", "premium"}
    /\ \E s \in last.written :
          /\ "title" \in DOMAIN FrameOf(content[s]).en
          /\ "sections" \in DOMAIN FrameOf(content[s]).en
          /\ FrameOf(content[s]).langs # << >>
          /\ "tags" \in DOMAIN FrameOf(content[s]).top

\* the content directory a Content Generator run leaves when it starts from
\* an empty one
FreshStore ==
    generate_loop(sheet, template, [store |-> << >>, written |-> {}, created |-> 0]).store

\* C29: after a Content Generator run, every file it wrote holds what the run
\* writes into an empty directory, whatever the file held before
C29_GenerateResets ==
    last.op = "generate" =>
        \A s \in last.written : content[s] = FreshStore[s]

\* a run has overwritten a file that an earlier stage or edit had changed
C29_Witness ==
    /\ last.op = "generate"
    /\ \E s \in last.replaced :
          /\ s \notin UNION {DOMAIN st : st \in InitialStores}
          /\ content[s] = FreshStore[s]

\* the record holds the update a request posted
HoldsUpdate(rec, data) ==
    LET block == Get(Get(rec, "i18n", << >>), data.lang, << >>)
    IN  /\ Get(block, "description", <<"?">>) = Get(data, "description", << >>)
        /\ Get(block, "ingredients", <<"?">>) = Get(data, "ingredients", << >>)
        /\ Get(block, "precautions", <<"?">>) = Get(data, "precautions", << >>)
        /\ Get(block, "history", <<"?">>) = Get(data, "history", << >>)

\* both requests are answered 200, for the same SKU and different languages
BothSaved(a, b) ==
    /\ a # b
    /\ requests[a].pc = "done" /\ requests[a].status = 200
    /\ requests[b].pc = "done" /\ requests[b].status = 200
    /\ requests[a].sku = requests[b].sku
    /\ requests[a].data.lang # requests[b].data.lang

\* C21: two update requests for the same SKU and different language blocks
\* that run one after the other (the second reads the file after the first
\* has written it) leave a record that holds both updates
C21_SequentialKeepsBoth ==
    \A a, b \in Requests :
        BothSaved(a, b) /\ a \in requests[b].after =>
            /\ HoldsUpdate(content[requests[a].sku], requests[a].data)
            /\ HoldsUpdate(content[requests[a].sku], requests[b].data)

\* the race: both requests read the file before either wrote it, and the
\* stored record holds the update of one of them only
C21_Witness ==
    \E a, b \in Requests :
        /\ BothSaved(a, b)
        /\ a \notin requests[b].after /\ b \notin requests[a].after
        /\ ~HoldsUpdate(content[requests[a].sku], requests[a].data)
        /\ HoldsUpdate(content[requests[a].sku], requests[b].data)

=============================================================================
